---- MODULE Spec2Model ----
(***************************************************************************)
(* OpenSBLI kernel / stencil derivation and OPSC code emission.            *)
(*                                                                         *)
(* Two generations of the code live side by side in the repository:        *)
(*   - opensbli/core/kernel.py : class Kernel, which works against a       *)
(*     block object (block.block_datasets, block.block_stencils) and the   *)
(*     class-level list DataSetsToDeclare.datasetbases;                    *)
(*   - opensbli/opsc.py        : class OPSC, the emitter, with its own     *)
(*     string-keyed stencil_dictionary.                                    *)
(* Both are modelled here, on separate variables.  Python lists and dicts  *)
(* that are indexed from 0 are functions on 0..n-1; a Python list that is  *)
(* only appended to and iterated is a sequence.  Iterating a Python set or *)
(* dict happens in an order the program does not control: every such loop  *)
(* takes its order as a nondeterministic input.                            *)
(***************************************************************************)
EXTENDS Integers, Sequences, FiniteSets, TLC

(***************************************************************************)
(* Bounds of the model.                                                    *)
(***************************************************************************)
MaxEqs == 2        \* equations one kernel may hold
MaxAddr == 6       \* list objects that may be allocated on the heap

(***************************************************************************)
(* Small helpers.                                                          *)
(***************************************************************************)
Range(s) == {s[i] : i \in DOMAIN s}

Orders(S) == {o \in [1..Cardinality(S) -> S] : \A i, j \in DOMAIN o : o[i] = o[j] => i = j}

Min(S) == CHOOSE x \in S : \A y \in S : x <= y

Max(S) == CHOOSE x \in S : \A y \in S : x >= y

EmptyMap == [x \in {} |-> 0]

(***************************************************************************)
(* Values of the kernel side.                                              *)
(*   A DataSet access is <<base name, index tuple>>; the index tuple holds *)
(*   the integer offsets relative to the current grid point.               *)
(*   An Equality is [lhs |-> accesses on the left, rhs |-> on the right,   *)
(*   consts |-> its ConstantIndexed atoms, idx |-> it has a Grididx atom,  *)
(*   rationals |-> its Rational atoms, each <<p, q>> in lowest terms].     *)
(*   A halo contributor is the pair <<get_halos(0), get_halos(1)>>.        *)
(***************************************************************************)
Kernels == {1, 2}

KFields == {"f", "g"}

HaloObjs == {<<-1, 1>>, <<-2, 2>>}

Shapes == {<<202>>, <<100>>}

BlockNumbers == {0, 1}

Pad(o, ndim) == [i \in 1..ndim |-> IF i = 1 THEN o ELSE 0]

Refs(offs, ndim) == {<<b, Pad(o, ndim)>> : b \in KFields, o \in offs}

Equalities(offs, ndim) ==
  {[lhs |-> {l}, rhs |-> R, consts |-> {}, idx |-> FALSE, rationals |-> {}] :
      l \in Refs({0}, ndim),
      R \in {S \in SUBSET Refs(offs, ndim) : Cardinality(S) \in {1, 2}}}

VARIABLES
  equations,       \* Kernel.equations, per kernel
  halo_ranges,     \* Kernel.halo_ranges, per kernel: [direction][side] -> set of contributors
  kranges,         \* Kernel.ranges, per kernel: the address of a list, 0 = attribute not set
  stencil_names,   \* Kernel.stencil_names, per kernel: [has |-> attribute set, names |-> dict]
  opsc_out,        \* what Kernel.opsc_code returned last, per kernel
  blk,             \* the block: blocknumber, ndim, shape, ranges (address), scheme halos
  datasetbases,    \* DataSetsToDeclare.datasetbases (class-level list)
  block_datasets,  \* block.block_datasets: the keys str(d); the value is the object d
  dset,            \* the attributes of the DataSetBase object of each name
  block_stencils,  \* block.block_stencils: frozenset of index tuples -> StencilObject
  outer,           \* heap: address -> list of addresses  (a list of [lower, upper] lists)
  inner,           \* heap: address -> [lower, upper]
  stencil_dictionary, \* OPSC.stencil_dictionary: key string -> stencil number
  stencil_number,     \* OPSC.stencil_number
  stencils,           \* the dict OPSC.get_stencils returned last: field -> stencil name
  iteration_range_index, \* OPSC.iteration_range_index
  kercall,            \* the call OPSC.kernel_call returned last
  printed,            \* what ccode returned last
  gen,                \* the emitter under construction: where OPSC.__init__ stands, what it wrote
  contributed,        \* history: every contributor passed for a kernel's direction and side
  ret              \* the call that ran last and how it ended

kvars == <<equations, halo_ranges, kranges, stencil_names, opsc_out>>

bvars == <<blk, datasetbases, block_datasets, dset, block_stencils>>

hvars == <<outer, inner>>

\* the emitter's state beyond its stencil registry
xvars == <<iteration_range_index, kercall, printed, gen>>

ovars == <<stencil_dictionary, stencil_number, stencils, xvars>>

evars == <<ovars, contributed>>

vars == <<kvars, bvars, hvars, evars, ret>>

\* op: the method, k: the kernel (0: none), arg: what was passed, exc: the exception raised
Call(op, k, arg, exc) == [op |-> op, k |-> k, arg |-> arg, exc |-> exc]

(***************************************************************************)
(* The heap of range lists.  block.ranges is a list with one [lower,upper] *)
(* list per dimension.                                                     *)
(***************************************************************************)
NextAddr == Cardinality(DOMAIN outer \cup DOMAIN inner) + 1

RangesAt(a) == [d \in DOMAIN outer[a] |-> inner[outer[a][d]]]

\* copy.deepcopy of the list at address a: a new outer list and a new inner
\* list per dimension, holding the same numbers.
deepcopy(a) ==
  LET n == Cardinality(DOMAIN outer[a])
      base == NextAddr
  IN [addr |-> base,
      outer |-> outer @@ (base :> [d \in 0..n-1 |-> base + 1 + d]),
      inner |-> inner @@ [x \in {base + 1 + d : d \in 0..n-1} |-> inner[outer[a][x - base - 1]]]]

(***************************************************************************)
(* Kernel.__init__ and the block it is built for.                          *)
(***************************************************************************)
NoRanges == 0

NoNames == [has |-> FALSE, names |-> EmptyMap]

NoCode == [has |-> FALSE]

EmptyHalos(ndim) == [d \in 0..ndim-1 |-> [s \in 0..1 |-> {}]]

(***************************************************************************)
(* Kernel.add_equation.  The argument is a Python value:                   *)
(*   kind "list"     : a list whose items are equalities or lists of them; *)
(*   kind "Equality" : one equality (items holds it);                      *)
(*   kind "other"    : anything else, of which only its truth value is     *)
(*                     looked at (None, 0, "" are falsy; "x", 5 truthy).   *)
(* An item of a list is [nested |-> it is itself a list, eqs |-> content]. *)
(***************************************************************************)
Item(e) == [nested |-> FALSE, eqs |-> <<e>>]

NestedItem(es) == [nested |-> TRUE, eqs |-> es]

ListArg(items) == [kind |-> "list", items |-> items, truthy |-> items # <<>>]

EqualityArg(e) == [kind |-> "Equality", items |-> <<Item(e)>>, truthy |-> TRUE]

OtherArg(t) == [kind |-> "other", items |-> <<>>, truthy |-> t]

\* sympy.flatten: the items in order, every nested list replaced by its content.
RECURSIVE flatten(_)
flatten(items) ==
  IF items = <<>> THEN <<>> ELSE Head(items).eqs \o flatten(Tail(items))

\* how the argument is described in ret
ArgClass(arg) ==
  IF arg.kind = "other" THEN (IF arg.truthy THEN "other, truthy" ELSE "other, falsy")
  ELSE IF arg.kind = "list" /\ arg.items = <<>> THEN "list, empty"
  ELSE arg.kind

\* the final else branch: neither a list nor an Equality, and not truthy.
add_equation_raises(arg) == arg.kind = "other" /\ ~arg.truthy

\* an add_equation that puts what a list contributes in front of the
\* equations the kernel has
add_equation_result_prepended(eqs, arg) ==
  IF arg.kind = "list" THEN flatten(arg.items) \o eqs
  ELSE IF arg.kind = "Equality" THEN eqs \o arg.items[1].eqs
  ELSE eqs

add_equation_result(eqs, arg) ==
  IF arg.kind = "list" THEN eqs \o flatten(arg.items)
  ELSE IF arg.kind = "Equality" THEN eqs \o arg.items[1].eqs
  ELSE eqs

\* add_equation on a kernel that may hold up to max equations
AddEquationWithin(k, arg, max) ==
  /\ Len(add_equation_result(equations[k], arg)) <= max
  /\ equations' = [equations EXCEPT ![k] = add_equation_result(@, arg)]
  /\ ret' = Call("add_equation", k, ArgClass(arg),
                 IF add_equation_raises(arg) THEN "ValueError" ELSE "none")
  /\ UNCHANGED <<halo_ranges, kranges, stencil_names, opsc_out, bvars, hvars, evars>>

AddEquation(k, arg) == AddEquationWithin(k, arg, MaxEqs)

(***************************************************************************)
(* Kernel.set_grid_range, set_halo_range, merge_halo_range.                *)
(***************************************************************************)
\* copy.copy in place of copy.deepcopy: a new outer list over the same inner lists
shallow_copy(a) ==
  [addr |-> NextAddr, outer |-> outer @@ (NextAddr :> outer[a]), inner |-> inner]

\* copy.deepcopy(block.ranges)
set_grid_range_copy(a) == deepcopy(a)

SetGridRange(k) ==
  LET c == set_grid_range_copy(blk.ranges)
  IN /\ Cardinality(DOMAIN c.outer \cup DOMAIN c.inner) <= MaxAddr
     /\ kranges' = [kranges EXCEPT ![k] = c.addr]
     /\ outer' = c.outer
     /\ inner' = c.inner
     /\ ret' = Call("set_grid_range", k, "block", "none")
     /\ UNCHANGED <<equations, halo_ranges, stencil_names, opsc_out, bvars, evars>>

\* Kernel.set_grid_range_to_zero: self.ranges becomes a new list holding one
\* new list [0, 0] per dimension of the block; the block's ranges are not read
SetGridRangeToZero(k) ==
  LET n == blk.ndim
      base == NextAddr
  IN /\ base + n <= MaxAddr
     /\ kranges' = [kranges EXCEPT ![k] = base]
     /\ outer' = outer @@ (base :> [d \in 0..n-1 |-> base + 1 + d])
     /\ inner' = inner @@ [x \in (base + 1)..(base + n) |-> [s \in 0..1 |-> 0]]
     /\ ret' = Call("set_grid_range_to_zero", k, "block", "none")
     /\ UNCHANGED <<equations, halo_ranges, stencil_names, opsc_out, bvars, evars>>

\* self.halo_ranges[direction][side] = set([types]), the assignment the code has
\* commented out
set_halo_range_overwrite(hr, direction, side, types) ==
  [hr EXCEPT ![direction][side] = IF types.isset THEN types.many ELSE {types.one}]

\* types is [isset |-> isinstance(types, set), one |-> the object, many |-> the set]
OneHalo(h) == [isset |-> FALSE, one |-> h, many |-> {}]

HaloSet(S) == [isset |-> TRUE, one |-> <<0, 0>>, many |-> S]

set_halo_range(hr, direction, side, types) ==
  [hr EXCEPT ![direction][side] = IF types.isset THEN @ \cup types.many ELSE @ \cup {types.one}]

SetHaloRange(k, direction, side, types) ==
  /\ direction \in DOMAIN halo_ranges[k]
  /\ halo_ranges' = [halo_ranges EXCEPT ![k] = set_halo_range(@, direction, side, types)]
  /\ contributed' = [contributed EXCEPT ![k][direction][side] =
                        @ \cup (IF types.isset THEN types.many ELSE {types.one})]
  /\ ret' = Call("set_halo_range", k, "types", "none")
  /\ UNCHANGED <<equations, kranges, stencil_names, opsc_out, bvars, hvars, ovars>>

merge_halo_range(hr, halo_range) ==
  [direction \in DOMAIN hr |->
     [s \in 0..1 |-> hr[direction][s] \cup halo_range[direction][s]]]

MergeHaloRange(k, other) ==
  /\ halo_ranges' = [halo_ranges EXCEPT ![k] = merge_halo_range(@, halo_ranges[other])]
  /\ contributed' = [contributed EXCEPT ![k] =
                        [direction \in DOMAIN @ |->
                           [s \in 0..1 |-> @[direction][s] \cup halo_ranges[other][direction][s]]]]
  /\ ret' = Call("merge_halo_range", k, "halo_range", "none")
  /\ UNCHANGED <<equations, kranges, stencil_names, opsc_out, bvars, hvars, ovars>>

(***************************************************************************)
(* The derived properties of a kernel.                                     *)
(***************************************************************************)
Bases(refs) == {r[1] : r \in refs}

lhs_datasets(eqs) == UNION {Bases(eqs[i].lhs) : i \in DOMAIN eqs}

rhs_datasets(eqs) == UNION {Bases(eqs[i].rhs) : i \in DOMAIN eqs}

\* Kernel.get_stencils: base -> frozenset of the index tuples it is accessed at.
get_stencils(eqs) ==
  LET datasets == UNION {eqs[i].lhs \cup eqs[i].rhs : i \in DOMAIN eqs}
  IN [b \in Bases(datasets) |-> {r[2] : r \in {x \in datasets : x[1] = b}}]

\* helperfunctions.get_min_max_halo_values
get_halos(h, side) == h[side + 1]

halo_m_mutant(halos) ==
  [direction \in DOMAIN halos |->
     IF halos[direction][0] # {}
     THEN Max({get_halos(d, 0) : d \in halos[direction][0]}) ELSE 0]

halo_m(halos) ==
  [direction \in DOMAIN halos |->
     IF halos[direction][0] # {}
     THEN Min({get_halos(d, 0) : d \in halos[direction][0]}) ELSE 0]

halo_p(halos) ==
  [direction \in DOMAIN halos |->
     IF halos[direction][1] # {}
     THEN Max({get_halos(d, 1) : d \in halos[direction][1]}) ELSE 0]

(***************************************************************************)
(* Kernel.update_block_datasets and Kernel.update_stencils.                *)
(* One DataSetBase object stands for each field name: the object appended  *)
(* to DataSetsToDeclare.datasetbases is the object stored under str(d) in  *)
(* block.block_datasets, and dset holds its attributes.                    *)
(***************************************************************************)
\* dataset_attributes(d) followed by the assignments of lines 343-350 / 365-371
new_dataset_attributes ==
  [size |-> blk.shape,
   block_number |-> blk.blocknumber,
   halo_ranges |-> [d1 \in 0..blk.ndim-1 |-> [s \in 0..1 |-> blk.scheme_halos]],
   block_name |-> blk.blockname]

in_datasetbases_mutant(d, db) == FALSE

\* "d in DataSetsToDeclare.datasetbases" (line 335)
in_datasetbases(d, db) == d \in Range(db)

consistency_error_mutant(d, ds) ==
  IF blk.blocknumber # ds[d].block_number THEN "ValueError: Block number error" ELSE "none"

\* the two checks of lines 358-361 against the registered object
consistency_error(d, ds) ==
  IF blk.blocknumber # ds[d].block_number THEN "ValueError: Block number error"
  ELSE IF blk.shape # ds[d].size THEN "ValueError: Shape error"
  ELSE "none"

\* one pass of the loop "for d in dsets" (lines 334-373) over the rest of the
\* iteration order; st = [db, bd, ds, exc]
RECURSIVE register_datasets(_, _)
register_datasets(order, st) ==
  IF order = <<>> \/ st.exc # "none" THEN st
  ELSE LET d == Head(order)
           s1 == IF in_datasetbases(d, st.db) THEN st
                 ELSE [st EXCEPT !.ds = (d :> new_dataset_attributes) @@ @,
                                 !.db = Append(@, d)]
           s2 == IF d \in s1.bd
                 THEN [s1 EXCEPT !.exc = consistency_error(d, s1.ds)]
                 ELSE [s1 EXCEPT !.ds = (d :> new_dataset_attributes) @@ @,
                                 !.bd = @ \cup {d}]
       IN register_datasets(Tail(order), s2)

\* 'stencil_%d_%02d' % (block.blocknumber, len(block.block_stencils.keys()))
stencil_name(blocknumber, n) == <<blocknumber, n>>

StencilObject(name, stencil, ndim) == [name |-> name, stencil |-> stencil, ndim |-> ndim]

new_stencil_number_mutant(bs) == 0

\* the number the next registry entry is given
new_stencil_number(bs) == Cardinality(DOMAIN bs)

\* the loop "for dset, stencil in stens.iteritems()" (lines 377-385 and 399-407)
\* over the rest of the iteration order; st = [bs, names]
RECURSIVE resolve_stencils(_, _, _)
resolve_stencils(order, stens, st) ==
  IF order = <<>> THEN st
  ELSE LET dsetb == Head(order)
           stencil == stens[dsetb]
           bs1 == IF stencil \notin DOMAIN st.bs
                  THEN st.bs @@ (stencil :>
                         StencilObject(stencil_name(blk.blocknumber, new_stencil_number(st.bs)),
                                       stencil, blk.ndim))
                  ELSE st.bs
           s1 == [bs |-> bs1, names |-> (dsetb :> bs1[stencil].name) @@ st.names]
       IN resolve_stencils(Tail(order), stens, s1)

UpdateBlockDatasets(k, dorder, sorder) ==
  LET dsets == lhs_datasets(equations[k]) \cup rhs_datasets(equations[k])
      stens == get_stencils(equations[k])
      r1 == register_datasets(dorder, [db |-> datasetbases, bd |-> block_datasets,
                                       ds |-> dset, exc |-> "none"])
      r2 == resolve_stencils(sorder, stens, [bs |-> block_stencils, names |-> EmptyMap])
  IN /\ dorder \in Orders(dsets)
     /\ sorder \in Orders(DOMAIN stens)
     /\ datasetbases' = r1.db
     /\ block_datasets' = r1.bd
     /\ dset' = r1.ds
     /\ IF r1.exc # "none"
        THEN /\ stencil_names' = [stencil_names EXCEPT ![k] = [has |-> TRUE, names |-> EmptyMap]]
             /\ UNCHANGED block_stencils
        ELSE /\ stencil_names' = [stencil_names EXCEPT ![k] = [has |-> TRUE, names |-> r2.names]]
             /\ block_stencils' = r2.bs
     /\ ret' = Call("update_block_datasets", k, "block", r1.exc)
     /\ UNCHANGED <<equations, halo_ranges, kranges, opsc_out, blk, hvars, evars>>

UpdateStencils(k, sorder) ==
  LET stens == get_stencils(equations[k])
      r2 == resolve_stencils(sorder, stens, [bs |-> block_stencils, names |-> EmptyMap])
  IN /\ sorder \in Orders(DOMAIN stens)
     /\ stencil_names' = [stencil_names EXCEPT ![k] = [has |-> TRUE, names |-> r2.names]]
     /\ block_stencils' = r2.bs
     /\ ret' = Call("update_stencils", k, "block", "none")
     /\ UNCHANGED <<equations, halo_ranges, kranges, opsc_out, blk, datasetbases,
                    block_datasets, dset, hvars, evars>>

(***************************************************************************)
(* Kernel.opsc_code: the classification of the fields, the range of        *)
(* evaluation and the emitted call.  The value returned is kept in         *)
(* opsc_out: the three argument groups (each emitted in set-iteration      *)
(* order), the stencil written for each argument and the numbers of the    *)
(* iteration-range array.                                                  *)
(***************************************************************************)
kernel_inouts_mutant(eqs) == UNION {Bases(eqs[i].lhs) \cap Bases(eqs[i].rhs) : i \in DOMAIN eqs}

kernel_inouts(eqs) == rhs_datasets(eqs) \cap lhs_datasets(eqs)

kernel_ins(eqs) == rhs_datasets(eqs) \ kernel_inouts(eqs)

kernel_outs(eqs) == lhs_datasets(eqs) \ kernel_inouts(eqs)

range_of_eval(ranges, halos, ndim) ==
  [d \in 0..ndim-1 |->
     [s \in 0..1 |-> IF s = 0 THEN ranges[d][0] + halo_m(halos)[d]
                              ELSE ranges[d][1] + halo_p(halos)[d]]]

\* sympy.flatten of the list of [lower, upper] lists
flatten_ranges(r, ndim) == [i \in 1..2*ndim |-> r[(i - 1) \div 2][(i - 1) % 2]]

\* Kernel.IndexedConstants and Kernel.grid_indices_used
IndexedConstants(eqs) == UNION {eqs[i].consts : i \in DOMAIN eqs}

grid_indices_used(eqs) == \E i \in DOMAIN eqs : eqs[i].idx

\* one ops_arg_dat / ops_arg_gbl / ops_arg_idx of an emitted call
DatArg(field, stencil, access) ==
  [kind |-> "ops_arg_dat", field |-> field, stencil |-> stencil, access |-> access]

GblArg(field, access) ==
  [kind |-> "ops_arg_gbl", field |-> field, stencil |-> "-", access |-> access]

IdxArg == [kind |-> "ops_arg_idx", field |-> "-", stencil |-> "-", access |-> "-"]


\* Kernel.opsc_access
opsc_access(group) ==
  IF group = "ins" THEN "OPS_READ" ELSE IF group = "outs" THEN "OPS_WRITE" ELSE "OPS_RW"

\* the arguments of the ops_par_loop (lines 298-308), the sets being iterated
\* in the orders given
opsc_code_args(eqs, names, iorder, oorder, ioorder, corder) ==
  [n \in DOMAIN iorder |-> DatArg(iorder[n], names[iorder[n]], opsc_access("ins"))]
  \o [n \in DOMAIN oorder |-> DatArg(oorder[n], names[oorder[n]], opsc_access("outs"))]
  \o [n \in DOMAIN ioorder |-> DatArg(ioorder[n], names[ioorder[n]], opsc_access("inouts"))]
  \o [n \in DOMAIN corder |-> GblArg(corder[n], opsc_access("ins"))]
  \o (IF grid_indices_used(eqs) THEN <<IdxArg>> ELSE <<>>)

OpscCode(k) ==
  LET eqs == equations[k]
      args == kernel_ins(eqs) \cup kernel_outs(eqs) \cup kernel_inouts(eqs)
      exc == IF blk.ndim > 0 /\ kranges[k] = NoRanges THEN "AttributeError: ranges"
             ELSE IF args # {} /\ ~stencil_names[k].has THEN "AttributeError: stencil_names"
             ELSE IF ~(args \subseteq DOMAIN stencil_names[k].names) THEN "KeyError"
             ELSE "none"
  IN /\ ret' = Call("opsc_code", k, "-", exc)
     /\ IF exc # "none" THEN UNCHANGED opsc_out
        ELSE \E iorder \in Orders(kernel_ins(eqs)), oorder \in Orders(kernel_outs(eqs)),
                ioorder \in Orders(kernel_inouts(eqs)), corder \in Orders(IndexedConstants(eqs)) :
             opsc_out' = [opsc_out EXCEPT ![k] =
               [has |-> TRUE,
                ins |-> kernel_ins(eqs),
                outs |-> kernel_outs(eqs),
                inouts |-> kernel_inouts(eqs),
                stencils |-> [a \in args |-> stencil_names[k].names[a]],
                args |-> opsc_code_args(eqs, stencil_names[k].names,
                                        iorder, oorder, ioorder, corder),
                iter_range |-> flatten_ranges(
                   range_of_eval(RangesAt(kranges[k]), halo_ranges[k], blk.ndim), blk.ndim)]]
     /\ UNCHANGED <<equations, halo_ranges, kranges, stencil_names, bvars, hvars, evars>>

(***************************************************************************)
(* The state after construction: one block, and the kernels built for it   *)
(* by Kernel.__init__ (no equations, empty halo sets, neither ranges nor   *)
(* stencil_names set).  The emitter has not registered any stencil.        *)
(***************************************************************************)
InitBlock(ndim, shape, scheme_halos) ==
  /\ blk = [blocknumber |-> 0, ndim |-> ndim, blockname |-> "block0", shape |-> shape,
            ranges |-> 1, scheme_halos |-> scheme_halos]
  /\ outer = (1 :> [d \in 0..ndim-1 |-> 2 + d])
  /\ inner = [x \in 2..(1 + ndim) |-> [s \in 0..1 |-> IF s = 0 THEN 0 ELSE 200]]
  /\ datasetbases = <<>>
  /\ block_datasets = {}
  /\ dset = EmptyMap
  /\ block_stencils = EmptyMap

InitKernels ==
  /\ equations = [k \in Kernels |-> <<>>]
  /\ halo_ranges = [k \in Kernels |-> EmptyHalos(blk.ndim)]
  /\ kranges = [k \in Kernels |-> NoRanges]
  /\ stencil_names = [k \in Kernels |-> NoNames]
  /\ opsc_out = [k \in Kernels |-> NoCode]
  /\ contributed = [k \in Kernels |-> EmptyHalos(blk.ndim)]
  /\ ret = Call("init", 0, "-", "none")

\* ccode has not been called; OPSC.__init__ has not been called
NotPrinted == [text |-> "", exc |-> "none"]

NoEmitter == [pc |-> "none"]

\* kernel_call has not returned anything
NoCall == [has |-> FALSE]

InitEmitter ==
  /\ stencil_dictionary = EmptyMap
  /\ stencil_number = 0
  /\ stencils = EmptyMap
  /\ iteration_range_index = 0
  /\ kercall = NoCall
  /\ printed = NotPrinted
  /\ gen = NoEmitter

(***************************************************************************)
(* SpecKernel: one kernel is populated, finalised and emitted.             *)
(***************************************************************************)
KernelArgs ==
  {EqualityArg(e) : e \in Equalities({0}, 1)}
  \cup {ListArg(<<>>), OtherArg(TRUE), OtherArg(FALSE)}
  \cup {ListArg(<<Item(e)>>) : e \in Equalities({0}, 1)}
  \cup {ListArg(<<Item(e1), NestedItem(<<e2>>)>>) : e1, e2 \in Equalities({0}, 1)}

InitKernelSpec == InitBlock(1, <<202>>, {}) /\ InitKernels /\ InitEmitter

\* every order in which a set or dict of field objects may be iterated
FieldOrders == UNION {Orders(S) : S \in SUBSET KFields}

NextKernel ==
  \/ \E arg \in KernelArgs : AddEquation(1, arg)
  \/ SetGridRange(1)
  \/ SetGridRangeToZero(1)
  \/ \E dorder, sorder \in FieldOrders : UpdateBlockDatasets(1, dorder, sorder)
  \/ OpscCode(1)

SpecKernel == InitKernelSpec /\ [][NextKernel]_vars

(***************************************************************************)
(* C1.  Whenever Kernel.opsc_code has returned, the three argument groups  *)
(* it emitted are computed over the kernel's whole equation list: inout is *)
(* the set of fields that are on some left-hand side and on some           *)
(* right-hand side, in is the right-hand fields without inout, out the     *)
(* left-hand fields without inout; the groups are pairwise disjoint, their *)
(* union is every field an equation refers to, and a field that is only on *)
(* the left of one equation and only on the right of another is inout.     *)
(***************************************************************************)
OnLeft(eqs) == {b \in KFields : \E i \in DOMAIN eqs : \E r \in eqs[i].lhs : r[1] = b}

OnRight(eqs) == {b \in KFields : \E i \in DOMAIN eqs : \E r \in eqs[i].rhs : r[1] = b}

SplitAcrossEquations(eqs, b) ==
  \E i, j \in DOMAIN eqs :
     /\ b \in Bases(eqs[i].lhs) \ Bases(eqs[i].rhs)
     /\ b \in Bases(eqs[j].rhs) \ Bases(eqs[j].lhs)

C1_ClassificationPartition ==
  (ret.op = "opsc_code" /\ ret.exc = "none") =>
     LET eqs == equations[ret.k]
         o == opsc_out[ret.k]
     IN /\ o.inouts = OnLeft(eqs) \cap OnRight(eqs)
        /\ o.ins = OnRight(eqs) \ o.inouts
        /\ o.outs = OnLeft(eqs) \ o.inouts
        /\ o.ins \cap o.outs = {} /\ o.ins \cap o.inouts = {} /\ o.outs \cap o.inouts = {}
        /\ o.ins \cup o.outs \cup o.inouts = OnLeft(eqs) \cup OnRight(eqs)
        /\ \A b \in KFields : SplitAcrossEquations(eqs, b) => b \in o.inouts

\* opsc_code has classified a kernel in which f is written by one equation and
\* read by another, and never both by one.
C1_Witness ==
  /\ ret.op = "opsc_code" /\ ret.exc = "none"
  /\ SplitAcrossEquations(equations[ret.k], "f")
  /\ \A i \in DOMAIN equations[ret.k] :
        "f" \notin Bases(equations[ret.k][i].lhs) \cap Bases(equations[ret.k][i].rhs)
  /\ "f" \in opsc_out[ret.k].inouts

(***************************************************************************)
(* C5.  Kernel.add_equation raises ValueError exactly for an argument that *)
(* is none of: an Equality, a list, a falsy value; a falsy argument is     *)
(* accepted as a no-op.                                                    *)
(***************************************************************************)
C5_AddEquationAccepts ==
  ret.op = "add_equation" =>
     (ret.exc = "ValueError" <=> ret.arg = "other, truthy")

(***************************************************************************)
(* SpecHalo: the kernel of the end-to-end scenario, g[i] = f[i-1] + f[i+1],*)
(* on a block of one or two dimensions with working range [0, 200) in each;*)
(* halo contributors are added to its sides, and the kernel is emitted.    *)
(***************************************************************************)
ScenarioEq(ndim) ==
  [lhs |-> {<<"g", Pad(0, ndim)>>}, rhs |-> {<<"f", Pad(-1, ndim)>>, <<"f", Pad(1, ndim)>>},
   consts |-> {}, idx |-> FALSE, rationals |-> {}]

\* what is passed as types: in direction 0 either contributor or the set of
\* both, in direction 1 the two-layer contributor
HaloArgs(direction) ==
  IF direction = 0 THEN {OneHalo(h) : h \in HaloObjs} \cup {HaloSet(HaloObjs)}
  ELSE {OneHalo(<<-2, 2>>)}

InitHaloSpec ==
  /\ \E ndim \in {1, 2} : InitBlock(ndim, [i \in 1..ndim |-> 202], {})
  /\ InitKernels
  /\ InitEmitter

NextHalo ==
  \/ AddEquation(1, ListArg(<<Item(ScenarioEq(blk.ndim))>>))
  \/ SetGridRange(1)
  \/ SetGridRangeToZero(1)
  \/ \E direction \in 0..1, side \in 0..1 : \E types \in HaloArgs(direction) :
        SetHaloRange(1, direction, side, types)
  \/ \E dorder, sorder \in FieldOrders : UpdateBlockDatasets(1, dorder, sorder)
  \/ OpscCode(1)

SpecHalo == InitHaloSpec /\ [][NextHalo]_vars

(***************************************************************************)
(* C9.  Whenever Kernel.opsc_code has returned, the iteration-range array  *)
(* it emitted holds, for each dimension d, the lower bound ranges[d][0]    *)
(* plus the least get_halos(0) of the negative-side contributors of d and  *)
(* the upper bound ranges[d][1] plus the greatest get_halos(1) of the      *)
(* positive-side contributors (0 for an empty set); with range [0, 200)    *)
(* and one contributor of one layer on each side that is -1 and 201.       *)
(***************************************************************************)
LowerExtension(S) ==
  IF S = {} THEN 0 ELSE CHOOSE m \in {h[1] : h \in S} : \A h \in S : m <= h[1]

UpperExtension(S) ==
  IF S = {} THEN 0 ELSE CHOOSE m \in {h[2] : h \in S} : \A h \in S : m >= h[2]

C9_RangeOfEvaluation ==
  (ret.op = "opsc_code" /\ ret.exc = "none") =>
     LET r == RangesAt(kranges[ret.k])
         h == halo_ranges[ret.k]
         a == opsc_out[ret.k].iter_range
     IN /\ Len(a) = 2 * blk.ndim
        /\ \A d \in 0..blk.ndim-1 :
              /\ a[2*d + 1] = r[d][0] + LowerExtension(h[d][0])
              /\ a[2*d + 2] = r[d][1] + UpperExtension(h[d][1])
        /\ \A d \in 0..blk.ndim-1 :
              (r[d][0] = 0 /\ r[d][1] = 200 /\ h[d][0] = {<<-1, 1>>} /\ h[d][1] = {<<-1, 1>>})
                 => (a[2*d + 1] = -1 /\ a[2*d + 2] = 201)

\* the scenario has been emitted: 1-D, [0, 200), one layer on each side
C9_Witness ==
  /\ ret.op = "opsc_code" /\ ret.exc = "none"
  /\ blk.ndim = 1
  /\ halo_ranges[ret.k][0][0] = {<<-1, 1>>} /\ halo_ranges[ret.k][0][1] = {<<-1, 1>>}
  /\ opsc_out[ret.k].iter_range = <<-1, 201>>

(***************************************************************************)
(* Callers that change the block's working range, or a kernel's, after the *)
(* kernel was built.  A range list can be replaced by a new list, one of   *)
(* its dimensions can be replaced by a new [lower, upper] list, or one     *)
(* bound can be overwritten in place.                                      *)
(***************************************************************************)
MutatedBound == 50

BlockReplaceRanges ==
  LET n == blk.ndim
      base == NextAddr
  IN /\ base + n <= MaxAddr
     /\ outer' = outer @@ (base :> [d \in 0..n-1 |-> base + 1 + d])
     /\ inner' = inner @@ [x \in (base + 1)..(base + n) |-> [s \in 0..1 |-> IF s = 0 THEN 0 ELSE 100]]
     /\ blk' = [blk EXCEPT !.ranges = base]
     /\ ret' = Call("block.ranges = new", 0, "-", "none")
     /\ UNCHANGED <<kvars, datasetbases, block_datasets, dset, block_stencils, evars>>

BlockSetDim(d) ==
  /\ d \in DOMAIN outer[blk.ranges]
  /\ NextAddr <= MaxAddr
  /\ outer' = [outer EXCEPT ![blk.ranges][d] = NextAddr]
  /\ inner' = inner @@ (NextAddr :> [s \in 0..1 |-> IF s = 0 THEN 0 ELSE 100])
  /\ ret' = Call("block.ranges[d] = new", 0, "-", "none")
  /\ UNCHANGED <<kvars, bvars, evars>>

BlockSetBound(d, s) ==
  /\ d \in DOMAIN outer[blk.ranges]
  /\ inner' = [inner EXCEPT ![outer[blk.ranges][d]][s] = MutatedBound]
  /\ ret' = Call("block.ranges[d][s] = v", 0, "-", "none")
  /\ UNCHANGED <<kvars, bvars, outer, evars>>

KernelSetBound(k, d, s) ==
  /\ kranges[k] # NoRanges
  /\ d \in DOMAIN outer[kranges[k]]
  /\ inner' = [inner EXCEPT ![outer[kranges[k]][d]][s] = MutatedBound]
  /\ ret' = Call("kernel.ranges[d][s] = v", k, "-", "none")
  /\ UNCHANGED <<kvars, bvars, outer, evars>>

(***************************************************************************)
(* SpecRanges: set_grid_range against later changes of the ranges.         *)
(***************************************************************************)
NextRanges ==
  \/ \E k \in Kernels : SetGridRange(k)
  \/ \E k \in Kernels : SetGridRangeToZero(k)
  \/ BlockReplaceRanges
  \/ \E d \in 0..1 : BlockSetDim(d)
  \/ \E d \in 0..1, s \in 0..1 : BlockSetBound(d, s)
  \/ \E k \in Kernels, d \in 0..1, s \in 0..1 : KernelSetBound(k, d, s)

SpecRanges == InitHaloSpec /\ [][NextRanges]_vars

(***************************************************************************)
(* C10.  set_grid_range stores a deep copy: a step that changes the        *)
(* block's ranges (replacing the list, replacing one dimension, or         *)
(* overwriting one bound in place) leaves the ranges of every kernel that  *)
(* has them as they were, and a step that overwrites a bound of a kernel's *)
(* ranges leaves the block's ranges and every other kernel's as they were. *)
(***************************************************************************)
BlockRangeChanges == {"block.ranges = new", "block.ranges[d] = new", "block.ranges[d][s] = v"}

C10_SetGridRangeDeepCopy ==
  [][/\ ret'.op \in BlockRangeChanges =>
          \A k \in Kernels : kranges[k] # NoRanges =>
             RangesAt(kranges[k])' = RangesAt(kranges[k])
     /\ ret'.op = "kernel.ranges[d][s] = v" =>
          /\ RangesAt(blk.ranges)' = RangesAt(blk.ranges)
          /\ \A k \in Kernels \ {ret'.k} : kranges[k] # NoRanges =>
                RangesAt(kranges[k])' = RangesAt(kranges[k])]_vars

\* a bound of the block's range was overwritten in place after kernel 1 took
\* its copy, and the two now differ
C10_Witness ==
  /\ ret.op = "block.ranges[d][s] = v"
  /\ kranges[1] # NoRanges
  /\ RangesAt(blk.ranges)[0][0] = MutatedBound
  /\ RangesAt(kranges[1])[0] = [s \in 0..1 |-> IF s = 0 THEN 0 ELSE 200]

(***************************************************************************)
(* Callers that give the block another shape or another number after       *)
(* fields were registered for it.  block.shape is a tuple: it is replaced, *)
(* never changed in place.                                                 *)
(***************************************************************************)
BlockSetShape(s) ==
  /\ s # blk.shape
  /\ blk' = [blk EXCEPT !.shape = s]
  /\ ret' = Call("block.shape = new", 0, "-", "none")
  /\ UNCHANGED <<kvars, datasetbases, block_datasets, dset, block_stencils, hvars, evars>>

BlockSetNumber(n) ==
  /\ n # blk.blocknumber
  /\ blk' = [blk EXCEPT !.blocknumber = n]
  /\ ret' = Call("block.blocknumber = new", 0, "-", "none")
  /\ UNCHANGED <<kvars, datasetbases, block_datasets, dset, block_stencils, hvars, evars>>

(***************************************************************************)
(* SpecRegistry: two kernels of one block are given equations and          *)
(* finalised, in any order and any number of times, while the block's      *)
(* shape and number may be changed between the calls.                      *)
(*   kernel 1 holds the equation of the end-to-end scenario,               *)
(*   kernel 2 holds g[i] = f[i+1].                                         *)
(***************************************************************************)
ShiftEq(ndim) ==
  [lhs |-> {<<"g", Pad(0, ndim)>>}, rhs |-> {<<"f", Pad(1, ndim)>>},
   consts |-> {}, idx |-> FALSE, rationals |-> {}]

RegistryArgs(k, ndim) ==
  IF k = 1 THEN {ListArg(<<Item(ScenarioEq(ndim))>>)}
  ELSE {EqualityArg(ShiftEq(ndim))}

NextRegistry ==
  \/ \E k \in Kernels : \E arg \in RegistryArgs(k, blk.ndim) : AddEquation(k, arg)
  \/ \E k \in Kernels : \E dorder, sorder \in FieldOrders : UpdateBlockDatasets(k, dorder, sorder)
  \/ \E s \in Shapes : BlockSetShape(s)
  \/ \E n \in BlockNumbers : BlockSetNumber(n)

SpecRegistry == InitKernelSpec /\ [][NextRegistry]_vars

(***************************************************************************)
(* C6.  update_block_datasets is idempotent with respect to the            *)
(* registries: when it has returned for a kernel and is called again for   *)
(* the same kernel and the same block, the second call adds nothing to     *)
(* block.block_stencils, block.block_datasets or                           *)
(* DataSetsToDeclare.datasetbases, changes no stencil name and no field    *)
(* record, and leaves the kernel's stencil_names equal to what the first   *)
(* call produced.                                                          *)
(***************************************************************************)
C6_UpdateIdempotent ==
  [][(/\ ret.op = "update_block_datasets" /\ ret.exc = "none"
      /\ ret'.op = "update_block_datasets" /\ ret'.k = ret.k)
     => /\ ret'.exc = "none"
        /\ block_stencils' = block_stencils
        /\ block_datasets' = block_datasets
        /\ datasetbases' = datasetbases
        /\ dset' = dset
        /\ stencil_names'[ret.k] = stencil_names[ret.k]]_vars

\* update_block_datasets has returned for kernel 2 with both of its fields
\* registered and named, and two stencils in the block's registry
C6_Witness ==
  /\ ret.op = "update_block_datasets" /\ ret.exc = "none" /\ ret.k = 2
  /\ Len(datasetbases) = 2
  /\ block_datasets = {"f", "g"}
  /\ DOMAIN stencil_names[2].names = {"f", "g"}
  /\ Cardinality(DOMAIN block_stencils) >= 2

(***************************************************************************)
(* C7.  A registered field keeps its record: no step changes or removes    *)
(* the record (block number, shape, halo record, block name) of a field    *)
(* that is in block.block_datasets, and update_block_datasets for a kernel *)
(* that refers to a registered field whose recorded block number or shape  *)
(* differs from the block's raises ValueError.                             *)
(***************************************************************************)
Mismatched(d) == dset[d].block_number # blk.blocknumber \/ dset[d].size # blk.shape

C7_MismatchIsFatal ==
  [][/\ \A d \in block_datasets : d \in block_datasets' /\ dset'[d] = dset[d]
     /\ (/\ ret'.op = "update_block_datasets"
         /\ \E d \in block_datasets \cap (lhs_datasets(equations[ret'.k])
                                           \cup rhs_datasets(equations[ret'.k])) :
               Mismatched(d))
        => ret'.exc \in {"ValueError: Block number error", "ValueError: Shape error"}]_vars

\* f was registered with shape (202,); the block's shape is now (100,) and
\* update_block_datasets has raised the shape error, f's record being as before
C7_Witness ==
  /\ ret.op = "update_block_datasets" /\ ret.exc = "ValueError: Shape error"
  /\ "f" \in block_datasets
  /\ dset["f"].size = <<202>> /\ dset["f"].block_number = 0
  /\ blk.shape = <<100>> /\ blk.blocknumber = 0

(***************************************************************************)
(* SpecHaloMerge: two kernels of a 1-D block are built (equations, halo    *)
(* contributors of their own or merged from the other kernel) and then     *)
(* finalised with update_block_datasets, in any order.  The set returned   *)
(* by block.get_all_scheme_halos() is fixed when the block is built.       *)
(***************************************************************************)
\* the contributor a kernel adds for itself: one layer for kernel 1, two for kernel 2
OwnHalo(k) == IF k = 1 THEN <<-1, 1>> ELSE <<-2, 2>>

InitHaloMerge ==
  /\ \E scheme_halos \in {{}, HaloObjs} : InitBlock(1, <<202>>, scheme_halos)
  /\ InitKernels
  /\ InitEmitter

NextHaloMerge ==
  \/ \E k \in Kernels : \E arg \in RegistryArgs(k, blk.ndim) :
        ~stencil_names[k].has /\ AddEquation(k, arg)
  \/ \E k \in Kernels, side \in 0..1 :
        ~stencil_names[k].has /\ SetHaloRange(k, 0, side, OneHalo(OwnHalo(k)))
  \/ \E k, other \in Kernels :
        k # other /\ ~stencil_names[k].has /\ MergeHaloRange(k, other)
  \/ \E k \in Kernels : \E dorder, sorder \in FieldOrders : UpdateBlockDatasets(k, dorder, sorder)

SpecHaloMerge == InitHaloMerge /\ [][NextHaloMerge]_vars

(***************************************************************************)
(* C8.  After update_block_datasets has run for some kernels, the halo     *)
(* record of every registered field holds, in each direction and on each   *)
(* side, the union of the halo sets of the finalised kernels that refer to *)
(* the field.                                                              *)
(***************************************************************************)
Finalised(d) ==
  {k \in Kernels : /\ stencil_names[k].has
                   /\ d \in lhs_datasets(equations[k]) \cup rhs_datasets(equations[k])}

C8_HaloRecordIsUnion ==
  ret.op = "update_block_datasets" =>
     \A d \in block_datasets : \A direction \in 0..blk.ndim-1 : \A side \in 0..1 :
        dset[d].halo_ranges[direction][side]
           = UNION {halo_ranges[k][direction][side] : k \in Finalised(d)}

(***************************************************************************)
(* The emitter of opensbli/opsc.py: OPSC.get_stencils and its helpers.     *)
(*   An index expression is a sum of symbols plus an integer constant:     *)
(*   [symbols |-> the symbols, off |-> the constant].  An access is a      *)
(*   tuple of index expressions, one per dimension.  The value a           *)
(*   computation holds for a field is a Python list of accesses, or one    *)
(*   access that is not wrapped in a list.                                 *)
(***************************************************************************)
GridFields == KFields \cup {"h"}

GlobalFields == {"dt", "res"}

is_grid(key) == key \in GridFields

\* the loop variable of dimension d
IndexSymbol(d) == "x" \o ToString(d)

Idx(d, o) == [symbols |-> {IndexSymbol(d)}, off |-> o]

Const(o) == [symbols |-> {}, off |-> o]

ListValue(accesses) == [islist |-> TRUE, val |-> accesses]

TupleValue(access) == [islist |-> FALSE, val |-> access]

\* outv.subs(a, 0) for every symbol a of the expression
subs_symbols(v) == v.off

\* stable sort of a sequence of tuples by the entry of one dimension:
\* sorted(indexes, key=lambda indexes: indexes[dim])
RECURSIVE insert_by_key(_, _, _)
insert_by_key(x, s, dim) ==
  IF s = <<>> THEN <<x>>
  ELSE IF x[dim] < Head(s)[dim] THEN <<x>> \o s
  ELSE <<Head(s)>> \o insert_by_key(x, Tail(s), dim)

RECURSIVE sorted_by_key(_, _)
sorted_by_key(s, dim) ==
  IF s = <<>> THEN <<>>
  ELSE insert_by_key(s[Len(s)], sorted_by_key(SubSeq(s, 1, Len(s) - 1), dim), dim)

\* the order of Python lists of integers
RECURSIVE list_less(_, _)
list_less(a, b) ==
  IF a = <<>> THEN b # <<>>
  ELSE IF b = <<>> THEN FALSE
  ELSE IF Head(a) # Head(b) THEN Head(a) < Head(b)
  ELSE list_less(Tail(a), Tail(b))

RECURSIVE insert_sorted(_, _)
insert_sorted(x, s) ==
  IF s = <<>> THEN <<x>>
  ELSE IF list_less(x, Head(s)) THEN <<x>> \o s
  ELSE <<Head(s)>> \o insert_sorted(x, Tail(s))

\* sorted(indexes)
RECURSIVE sorted(_)
sorted(s) ==
  IF s = <<>> THEN <<>>
  ELSE insert_sorted(s[Len(s)], sorted(SubSeq(s, 1, Len(s) - 1)))

\* the loop "for dim in range(len(indexes[0]))" from dimension dim on
RECURSIVE sort_passes(_, _, _)
sort_passes(indexes, dim, ndim) ==
  IF dim > ndim THEN indexes
  ELSE sort_passes(sorted_by_key(indexes, dim), dim + 1, ndim)

RECURSIVE flatten_tuples(_)
flatten_tuples(s) ==
  IF s = <<>> THEN <<>> ELSE Head(s) \o flatten_tuples(Tail(s))

\* the accesses left in the order they were listed, flattened
unsorted_stencil_indices(indexes) == flatten_tuples(indexes)

\* OPSC.sort_stencil_indices
sort_stencil_indices(indexes) ==
  IF Len(indexes[1]) > 1
  THEN flatten_tuples(sort_passes(indexes, 1, Len(indexes[1])))
  ELSE flatten_tuples(sorted(indexes))

\* indexes[0] of an empty list
relative_stencil_raises(value) == value.islist /\ value.val = <<>>

\* OPSC.relative_stencil
relative_stencil(value) ==
  LET v == IF value.islist THEN value.val ELSE <<value.val>>
      retun_val == [i \in DOMAIN v |-> [n \in DOMAIN v[i] |-> subs_symbols(v[i][n])]]
  IN sort_stencil_indices(retun_val)

\* OPSC.lsit_to_string: ','.join([str(s) for s in inlist])
RECURSIVE lsit_to_string(_)
lsit_to_string(inlist) ==
  IF inlist = <<>> THEN ""
  ELSE IF Len(inlist) = 1 THEN ToString(inlist[1])
  ELSE ToString(Head(inlist)) \o "," \o lsit_to_string(Tail(inlist))

\* self.stencil_name % self.stencil_number, with stencil_name = 'stencil%d'
emitter_stencil_name(number) == "stencil" \o ToString(number)

\* the two loops of get_stencils over the rest of the (key, value) pairs;
\* st = [dict, number, out, exc]
RECURSIVE resolve_keys(_, _)
resolve_keys(pairs, st) ==
  IF pairs = <<>> \/ st.exc # "none" THEN st
  ELSE LET key == Head(pairs)[1]
           value == Head(pairs)[2]
       IN IF ~is_grid(key) THEN resolve_keys(Tail(pairs), st)
          ELSE IF relative_stencil_raises(value) THEN [st EXCEPT !.exc = "IndexError"]
          ELSE LET stencil == lsit_to_string(relative_stencil(value))
                   new == stencil \notin DOMAIN st.dict
                   d1 == IF new THEN st.dict @@ (stencil :> emitter_stencil_name(st.number))
                         ELSE st.dict
                   s1 == [dict |-> d1,
                          number |-> IF new THEN st.number + 1 ELSE st.number,
                          out |-> (key :> d1[stencil]) @@ st.out,
                          exc |-> "none"]
               IN resolve_keys(Tail(pairs), s1)

\* the items of one dict of the computation in an iteration order
Items(d, order) == [i \in DOMAIN order |-> <<order[i], d[order[i]]>>]

GetStencils(computation, iorder, oorder, ioorder) ==
  LET pairs == Items(computation.inputs, iorder) \o Items(computation.outputs, oorder)
                 \o Items(computation.inputoutput, ioorder)
      r == resolve_keys(pairs, [dict |-> stencil_dictionary, number |-> stencil_number,
                                out |-> EmptyMap, exc |-> "none"])
  IN /\ iorder \in Orders(DOMAIN computation.inputs)
     /\ oorder \in Orders(DOMAIN computation.outputs)
     /\ ioorder \in Orders(DOMAIN computation.inputoutput)
     /\ stencil_dictionary' = r.dict
     /\ stencil_number' = r.number
     /\ stencils' = IF r.exc = "none" THEN r.out ELSE stencils
     /\ ret' = Call("get_stencils", 0, computation, r.exc)
     /\ UNCHANGED <<kvars, bvars, hvars, xvars, contributed>>

(***************************************************************************)
(* SpecStencils: stencil resolution of both generations on a block of one  *)
(* or two dimensions.  Kernels are given equations and resolved with       *)
(* update_block_datasets / update_stencils, or the emitter resolves the    *)
(* computations handed to it.  A computation reads f (and the global dt)   *)
(* and writes g, as an output or as an input-output.                       *)
(*   The accesses a computation lists for f are the three points A, B, C   *)
(*   in any order, or B alone, or the current point not wrapped in a list, *)
(*   or nothing.                                                           *)
(***************************************************************************)
PtA(ndim) == IF ndim = 1 THEN <<-1>> ELSE <<0, 1>>

PtB(ndim) == IF ndim = 1 THEN <<1>> ELSE <<1, 0>>

PtC(ndim) == IF ndim = 1 THEN <<2>> ELSE <<1, 1>>

PtO(ndim) == [d \in 1..ndim |-> 0]

\* the access at an offset from the current grid point: (x0 + o[1], x1 + o[2], ...)
Access(offs) == [d \in DOMAIN offs |-> Idx(d - 1, offs[d])]

FullLists(ndim) ==
  {ListValue([i \in DOMAIN o |-> Access(o[i])]) : o \in Orders({PtA(ndim), PtB(ndim), PtC(ndim)})}

InputValues(ndim) ==
  FullLists(ndim) \cup {ListValue(<<Access(PtB(ndim))>>), TupleValue(Access(PtO(ndim))),
                        ListValue(<<>>)}

OutputValues(ndim) ==
  {ListValue(<<Access(PtA(ndim)), Access(PtB(ndim)), Access(PtC(ndim))>>),
   ListValue(<<Access(PtC(ndim)), Access(PtB(ndim)), Access(PtA(ndim))>>),
   TupleValue(Access(PtO(ndim)))}

Computations(ndim) ==
  {[inputs |-> ("f" :> v) @@ ("dt" :> TupleValue(<<Const(0)>>)),
    outputs |-> IF rw THEN EmptyMap ELSE ("g" :> w),
    inputoutput |-> IF rw THEN ("g" :> w) ELSE EmptyMap] :
      v \in InputValues(ndim), w \in OutputValues(ndim), rw \in BOOLEAN}

\* The two generations work on disjoint state and are not used together:
\* a run resolves stencils with the kernels or with the emitter.
EmitterIdle ==
  /\ stencil_dictionary = EmptyMap /\ stencil_number = 0 /\ ret.op # "get_stencils"
  /\ iteration_range_index = 0

KernelsIdle ==
  /\ block_stencils = EmptyMap
  /\ \A k \in Kernels : equations[k] = <<>> /\ ~stencil_names[k].has

NextStencils ==
  \/ \E k \in Kernels : \E arg \in RegistryArgs(k, blk.ndim) :
        EmitterIdle /\ AddEquation(k, arg)
  \/ \E k \in Kernels : \E dorder, sorder \in FieldOrders :
        EmitterIdle /\ UpdateBlockDatasets(k, dorder, sorder)
  \/ \E k \in Kernels : \E sorder \in FieldOrders :
        EmitterIdle /\ UpdateStencils(k, sorder)
  \/ \E computation \in Computations(blk.ndim) :
        \E iorder \in Orders(DOMAIN computation.inputs),
           oorder \in Orders(DOMAIN computation.outputs),
           ioorder \in Orders(DOMAIN computation.inputoutput) :
              KernelsIdle /\ GetStencils(computation, iorder, oorder, ioorder)

SpecStencils == InitHaloSpec /\ [][NextStencils]_vars

\* the value the computation holds for a key (the dicts are read in the
\* order inputs, outputs, inputoutput)
FieldValue(computation, key) ==
  IF key \in DOMAIN computation.inputoutput THEN computation.inputoutput[key]
  ELSE IF key \in DOMAIN computation.outputs THEN computation.outputs[key]
  ELSE computation.inputs[key]

\* the offsets of the accesses of a value, in the order they are listed
Offsets(value) ==
  LET v == IF value.islist THEN value.val ELSE <<value.val>>
  IN [i \in DOMAIN v |-> [n \in DOMAIN v[i] |-> v[i][n].off]]

\* two lists hold the same references, possibly in another order
SameReferences(a, b) ==
  /\ Len(a) = Len(b)
  /\ \E p \in Orders(DOMAIN a) : \A i \in DOMAIN a : a[i] = b[p[i]]

EmitterNames(n) == {"stencil" \o ToString(i) : i \in 0..n-1}

BlockNames(n) == {<<blk.blocknumber, i>> : i \in 0..n-1}

(***************************************************************************)
(* C2.  Both stencil registries are append-only and numbered from 0 in     *)
(* first-use order without gaps: no step removes an entry or changes its   *)
(* name, the entries a step adds get the next free numbers, and the n      *)
(* entries of a registry carry the n distinct names numbered 0..n-1.  The  *)
(* name a field is given is the registry's name for its footprint, so two  *)
(* fields with the same footprint, in one kernel or in two, get the same   *)
(* name.                                                                   *)
(***************************************************************************)
C2_RegistryAppendOnly ==
  [][/\ \A key \in DOMAIN stencil_dictionary :
           key \in DOMAIN stencil_dictionary' /\ stencil_dictionary'[key] = stencil_dictionary[key]
     /\ \A key \in DOMAIN stencil_dictionary' \ DOMAIN stencil_dictionary :
           stencil_dictionary'[key] \in
              EmitterNames(Cardinality(DOMAIN stencil_dictionary'))
                 \ EmitterNames(Cardinality(DOMAIN stencil_dictionary))
     /\ {stencil_dictionary'[key] : key \in DOMAIN stencil_dictionary'}
           = EmitterNames(Cardinality(DOMAIN stencil_dictionary'))
     /\ \A s \in DOMAIN block_stencils :
           s \in DOMAIN block_stencils' /\ block_stencils'[s] = block_stencils[s]
     /\ \A s \in DOMAIN block_stencils' \ DOMAIN block_stencils :
           block_stencils'[s].name \in
              BlockNames(Cardinality(DOMAIN block_stencils'))
                 \ BlockNames(Cardinality(DOMAIN block_stencils))
     /\ {block_stencils'[s].name : s \in DOMAIN block_stencils'}
           = BlockNames(Cardinality(DOMAIN block_stencils'))
     /\ (ret'.op \in {"update_block_datasets", "update_stencils"} /\ ret'.exc = "none")
           => LET stens == get_stencils(equations[ret'.k])
              IN /\ DOMAIN stencil_names'[ret'.k].names = DOMAIN stens
                 /\ \A f \in DOMAIN stens :
                       stencil_names'[ret'.k].names[f] = block_stencils'[stens[f]].name
     /\ (ret'.op = "get_stencils" /\ ret'.exc = "none")
           => /\ \A f \in DOMAIN stencils' :
                    \E key \in DOMAIN stencil_dictionary' : stencil_dictionary'[key] = stencils'[f]
              /\ (ret.op = "get_stencils" /\ ret.exc = "none")
                    => \A f \in DOMAIN stencils', g \in DOMAIN stencils :
                          SameReferences(Offsets(FieldValue(ret'.arg, f)),
                                         Offsets(FieldValue(ret.arg, g)))
                             => stencils'[f] = stencils[g]]_vars

\* three footprints are registered for the block under the numbers 0, 1, 2,
\* and g, at the current point in both kernels, has the same name in both
C2_Witness ==
  /\ ret.op \in {"update_block_datasets", "update_stencils"} /\ ret.exc = "none"
  /\ Cardinality(DOMAIN block_stencils) = 3
  /\ {block_stencils[s].name : s \in DOMAIN block_stencils} = {<<0, 0>>, <<0, 1>>, <<0, 2>>}
  /\ stencil_names[1].has /\ stencil_names[2].has
  /\ "g" \in DOMAIN stencil_names[1].names \cap DOMAIN stencil_names[2].names
  /\ stencil_names[1].names["g"] = stencil_names[2].names["g"]

(***************************************************************************)
(* C3.  The stencil computed for a field contains the all-zero offset      *)
(* tuple, also when no access of the field is at the current grid point:   *)
(* for the emitter the flattened list relative_stencil returns holds the   *)
(* zero tuple, and for a kernel the footprint get_stencils computes and    *)
(* every footprint registered for the block holds it.                      *)
(***************************************************************************)
ZeroTupleIn(flat, ndim) ==
  \E i \in 0..((Len(flat) \div ndim) - 1) : \A d \in 1..ndim : flat[i * ndim + d] = 0

C3_ZeroOffsetIncluded ==
  /\ (ret.op = "get_stencils" /\ ret.exc = "none")
        => \A key \in DOMAIN stencils :
              ZeroTupleIn(relative_stencil(FieldValue(ret.arg, key)), blk.ndim)
  /\ (ret.op \in {"update_block_datasets", "update_stencils"} /\ ret.exc = "none")
        => /\ \A f \in DOMAIN get_stencils(equations[ret.k]) :
                 PtO(blk.ndim) \in get_stencils(equations[ret.k])[f]
           /\ \A s \in DOMAIN block_stencils : PtO(blk.ndim) \in s

(***************************************************************************)
(* C4.  The registry key does not depend on the order in which the         *)
(* references of a field are listed: when get_stencils has returned, two   *)
(* fields whose lists hold the same references in any order have the same  *)
(* stencil name, and a call for a computation whose fields hold the same   *)
(* references as fields of the computation before it, in any order, adds   *)
(* no entry to the registry and gives the same names.                      *)
(***************************************************************************)
Recomputes(computation, previous) ==
  \A f \in GridFields \cap DOMAIN stencils' :
     \E g \in DOMAIN stencils :
        SameReferences(Offsets(FieldValue(computation, f)), Offsets(FieldValue(previous, g)))

C4_PermutationInvariantKey ==
  [][(ret'.op = "get_stencils" /\ ret'.exc = "none")
     => /\ \A f, g \in DOMAIN stencils' :
              SameReferences(Offsets(FieldValue(ret'.arg, f)), Offsets(FieldValue(ret'.arg, g)))
                 => stencils'[f] = stencils'[g]
        /\ (ret.op = "get_stencils" /\ ret.exc = "none" /\ Recomputes(ret'.arg, ret.arg))
              => /\ stencil_dictionary' = stencil_dictionary
                 /\ stencil_number' = stencil_number]_vars

\* get_stencils has returned for a computation in which f lists A, B, C in
\* an order that is not the sorted one and g lists them in another order,
\* and both have the one name registered
C4_Witness ==
  /\ ret.op = "get_stencils" /\ ret.exc = "none"
  /\ DOMAIN stencils = {"f", "g"}
  /\ FieldValue(ret.arg, "f").islist /\ Len(FieldValue(ret.arg, "f").val) = 3
  /\ FieldValue(ret.arg, "g").islist
  /\ FieldValue(ret.arg, "f") # FieldValue(ret.arg, "g")
  /\ flatten_tuples(Offsets(FieldValue(ret.arg, "f"))) # relative_stencil(FieldValue(ret.arg, "f"))
  /\ stencils["f"] = stencils["g"]
  /\ Cardinality(DOMAIN stencil_dictionary) = 1

(***************************************************************************)
(* SpecHaloSets: contributors are added to the halo sets of two kernels,   *)
(* one at a time or as a set, and the sets of one kernel are merged into   *)
(* the other's, in any order.                                              *)
(***************************************************************************)
NextHaloSets ==
  \/ \E k \in Kernels, direction \in 0..1, side \in 0..1 : \E types \in HaloArgs(direction) :
        SetHaloRange(k, direction, side, types)
  \/ \E k, other \in Kernels : k # other /\ MergeHaloRange(k, other)

SpecHaloSets == InitHaloSpec /\ [][NextHaloSets]_vars

(***************************************************************************)
(* C18.  set_halo_range and merge_halo_range only ever add: no step takes  *)
(* a contributor out of any set, and after every step each set of each     *)
(* kernel, direction and side holds exactly the contributors that were     *)
(* passed for that kernel, direction and side (one at a time, as a set, or *)
(* merged in from another kernel's sets), whatever the order of the calls. *)
(***************************************************************************)
C18_HaloSetsAreUnions ==
  [][\A k \in Kernels : \A direction \in DOMAIN halo_ranges[k] : \A side \in 0..1 :
        /\ halo_ranges[k][direction][side] \subseteq halo_ranges'[k][direction][side]
        /\ halo_ranges'[k][direction][side] = contributed'[k][direction][side]]_vars

\* kernel 1 was given the one-layer contributor and then the two-layer one on
\* the same side, and kernel 2 merged kernel 1's sets into its own
C18_Witness ==
  /\ ret.op = "merge_halo_range" /\ ret.k = 2
  /\ halo_ranges[1][0][0] = {<<-1, 1>>, <<-2, 2>>}
  /\ halo_ranges[1][0][1] = {}
  /\ halo_ranges[2][0][0] = {<<-1, 1>>, <<-2, 2>>}
  /\ halo_ranges[2][0][1] = {<<-2, 2>>}

(***************************************************************************)
(* SpecSymbolic: the emitter resolves 1-D computations in which f is       *)
(* accessed at x0, x0 + 1, x0 + n or x0 + n + 1, where n is a symbol that  *)
(* is not a loop variable, and g is written at the current point.          *)
(***************************************************************************)
LoopVariables == {IndexSymbol(d) : d \in 0..2}

\* the access x0 + (sum of syms) + o
SymbolicAccess(syms, o) == <<[symbols |-> {IndexSymbol(0)} \cup syms, off |-> o]>>

SymbolicAccesses ==
  {SymbolicAccess(syms, o) : syms \in {{}, {"n"}}, o \in 0..1}

SymbolicComputations ==
  {[inputs |-> ("f" :> ListValue(accesses)),
    outputs |-> ("g" :> TupleValue(SymbolicAccess({}, 0))),
    inputoutput |-> EmptyMap] :
      accesses \in {<<a>> : a \in SymbolicAccesses}
                     \cup {<<a, b>> : a \in SymbolicAccesses, b \in SymbolicAccesses}}

NextSymbolic ==
  \E computation \in SymbolicComputations :
     \E iorder \in Orders(DOMAIN computation.inputs),
        oorder \in Orders(DOMAIN computation.outputs),
        ioorder \in Orders(DOMAIN computation.inputoutput) :
           GetStencils(computation, iorder, oorder, ioorder)

SpecSymbolic == InitKernelSpec /\ [][NextSymbolic]_vars

(***************************************************************************)
(* C20.  When a field of the computation has an access whose offset keeps  *)
(* a symbol after the loop variables are replaced by 0, get_stencils ends  *)
(* with an error and returns no stencil for that field.                    *)
(***************************************************************************)
HasSymbolicOffset(value) ==
  LET v == IF value.islist THEN value.val ELSE <<value.val>>
  IN \E i \in DOMAIN v : \E n \in DOMAIN v[i] : v[i][n].symbols \ LoopVariables # {}

C20_SymbolicOffsetReported ==
  ret.op = "get_stencils" =>
     \A key \in GridFields \cap DOMAIN ret.arg.inputs :
        HasSymbolicOffset(ret.arg.inputs[key])
           => (ret.exc # "none" /\ key \notin DOMAIN stencils)

(***************************************************************************)
(* OPSC.kernel_call.  A computation carries, besides its three dicts, its  *)
(* name, its ranges and has_Idx.  The value a non-grid key holds is a list *)
(* whose first entry is the index tuple of the element passed.             *)
(***************************************************************************)
MaxCalls == 3      \* kernel calls one emitter may issue

\* OPSC.ops_access
ops_access(group) ==
  IF group = "inputs" THEN "OPS_READ" ELSE IF group = "outputs" THEN "OPS_WRITE" ELSE "OPS_RW"

\* the keys of one dict in iteration order that are (or are not) grid based
RECURSIVE select_keys(_, _)
select_keys(order, grid) ==
  IF order = <<>> THEN <<>>
  ELSE (IF is_grid(Head(order)) = grid THEN <<Head(order)>> ELSE <<>>)
          \o select_keys(Tail(order), grid)

\* keys of the three dicts, the input-output keys first
grid_args_inout_first(sten, iorder, oorder, ioorder) ==
  LET dat(order, group) ==
        [n \in DOMAIN select_keys(order, TRUE) |->
           DatArg(select_keys(order, TRUE)[n], sten[select_keys(order, TRUE)[n]],
                  ops_access(group))]
  IN dat(ioorder, "inputoutput") \o dat(iorder, "inputs") \o dat(oorder, "outputs")

\* grid_based of kernel_call (lines 412-417)
grid_args(sten, iorder, oorder, ioorder) ==
  LET dat(order, group) ==
        [n \in DOMAIN select_keys(order, TRUE) |->
           DatArg(select_keys(order, TRUE)[n], sten[select_keys(order, TRUE)[n]],
                  ops_access(group))]
  IN dat(iorder, "inputs") \o dat(oorder, "outputs") \o dat(ioorder, "inputoutput")

\* nongrid of kernel_call (lines 419-426)
nongrid_args(computation, iorder, oorder, ioorder) ==
  LET gbl(order, group) ==
        [n \in DOMAIN select_keys(order, FALSE) |->
           GblArg(select_keys(order, FALSE)[n], ops_access(group))]
  IN gbl(iorder, "inputs") \o gbl(oorder, "outputs") \o gbl(ioorder, "inputoutput")
       \o (IF computation.has_Idx THEN <<IdxArg>> ELSE <<>>)

\* [r for ran in computation.ranges for r in ran]
RECURSIVE flatten_pairs(_)
flatten_pairs(ranges) ==
  IF ranges = <<>> THEN <<>> ELSE Head(ranges) \o flatten_pairs(Tail(ranges))

\* kernel_call as a function of the emitter's counters and registry em:
\* the counters and registry after the call, the call and the exception
kernel_call(em, computation, iorder, oorder, ioorder) ==
  LET pairs == Items(computation.inputs, iorder) \o Items(computation.outputs, oorder)
                 \o Items(computation.inputoutput, ioorder)
      r == resolve_keys(pairs, [dict |-> em.dict, number |-> em.number,
                                out |-> EmptyMap, exc |-> "none"])
  IN [dict |-> r.dict, number |-> r.number, index |-> em.index + 1,
      stencils |-> r.out, exc |-> r.exc,
      call |-> IF r.exc # "none" THEN NoCall
               ELSE [has |-> TRUE,
                     iterrange |-> em.index,
                     range |-> flatten_pairs(computation.ranges),
                     name |-> computation.name,
                     args |-> grid_args(r.out, iorder, oorder, ioorder)
                                \o nongrid_args(computation, iorder, oorder, ioorder)]]

KernelCall(computation, iorder, oorder, ioorder) ==
  LET r == kernel_call([dict |-> stencil_dictionary, number |-> stencil_number,
                        index |-> iteration_range_index],
                       computation, iorder, oorder, ioorder)
  IN /\ iteration_range_index < MaxCalls
     /\ iorder \in Orders(DOMAIN computation.inputs)
     /\ oorder \in Orders(DOMAIN computation.outputs)
     /\ ioorder \in Orders(DOMAIN computation.inputoutput)
     /\ iteration_range_index' = r.index
     /\ stencil_dictionary' = r.dict
     /\ stencil_number' = r.number
     /\ stencils' = IF r.exc = "none" THEN r.stencils ELSE stencils
     /\ kercall' = IF r.exc = "none" THEN r.call ELSE kercall
     /\ ret' = Call("kernel_call", 0, computation, r.exc)
     /\ UNCHANGED <<kvars, bvars, hvars, printed, gen, contributed>>

(***************************************************************************)
(* SpecCalls: kernel calls of both generations on a 1-D block.  A kernel   *)
(* is given equations, some with indexed constants or the grid index, is   *)
(* finalised and emitted; or the emitter is handed computations that read  *)
(* f (and the global dt), may write g (and the global res), may update h,  *)
(* and may use the grid index.                                             *)
(***************************************************************************)
CallEqualities ==
  {[lhs |-> {<<"g", <<0>> >>}, rhs |-> {<<"f", <<0>> >>},
    consts |-> {}, idx |-> FALSE, rationals |-> {}],
   [lhs |-> {<<"f", <<0>> >>}, rhs |-> {<<"g", <<0>> >>},
    consts |-> {"c"}, idx |-> FALSE, rationals |-> {}],
   [lhs |-> {<<"g", <<0>> >>}, rhs |-> {<<"f", <<1>> >>, <<"g", <<0>> >>},
    consts |-> {"c", "d"}, idx |-> TRUE, rationals |-> {}]}

GlobalValue == ListValue(<< <<Const(0)>> >>)

CallComputations ==
  {[inputs |-> ins, outputs |-> outs, inputoutput |-> inouts, has_Idx |-> has_Idx,
    name |-> "kernel", ranges |-> << <<0, 200>> >>] :
      ins \in {("f" :> ListValue(<<Access(<<1>>)>>)),
               ("f" :> ListValue(<<Access(<<1>>)>>)) @@ ("dt" :> GlobalValue)},
      outs \in {EmptyMap,
                ("g" :> TupleValue(Access(<<0>>))),
                ("g" :> TupleValue(Access(<<0>>))) @@ ("res" :> GlobalValue)},
      inouts \in {EmptyMap, ("h" :> TupleValue(Access(<<0>>)))},
      has_Idx \in BOOLEAN}

NextCalls ==
  \/ \E e \in CallEqualities : EmitterIdle /\ AddEquation(1, EqualityArg(e))
  \/ EmitterIdle /\ SetGridRange(1)
  \/ EmitterIdle /\ SetGridRangeToZero(1)
  \/ \E dorder, sorder \in FieldOrders : EmitterIdle /\ UpdateBlockDatasets(1, dorder, sorder)
  \/ EmitterIdle /\ OpscCode(1)
  \/ \E computation \in CallComputations :
        \E iorder \in Orders(DOMAIN computation.inputs),
           oorder \in Orders(DOMAIN computation.outputs),
           ioorder \in Orders(DOMAIN computation.inputoutput) :
              KernelsIdle /\ KernelCall(computation, iorder, oorder, ioorder)

SpecCalls == InitKernelSpec /\ [][NextCalls]_vars

(***************************************************************************)
(* C11.  In every emitted kernel call the arguments come in the order:     *)
(* grid fields read (OPS_READ), grid fields written (OPS_WRITE), grid      *)
(* fields updated (OPS_RW), then the global arguments in the same          *)
(* grouping, then ops_arg_idx().  ops_arg_idx() occurs once, as the last   *)
(* argument, when the kernel uses the grid index, and not at all           *)
(* otherwise; every field is an argument once, with the access mode of the *)
(* group it belongs to.                                                    *)
(***************************************************************************)
ArgRank(a) ==
  IF a.kind = "ops_arg_idx" THEN 6
  ELSE (IF a.kind = "ops_arg_dat" THEN 0 ELSE 3)
       + (IF a.access = "OPS_READ" THEN 0 ELSE IF a.access = "OPS_WRITE" THEN 1 ELSE 2)

InCallOrder(args, uses_idx) ==
  /\ \A i, j \in DOMAIN args : i < j => ArgRank(args[i]) <= ArgRank(args[j])
  /\ Cardinality({i \in DOMAIN args : args[i].kind = "ops_arg_idx"})
        = (IF uses_idx THEN 1 ELSE 0)
  /\ uses_idx => args[Len(args)] = IdxArg

FieldsWith(args, kind, access) ==
  {args[i].field : i \in {j \in DOMAIN args : args[j].kind = kind /\ args[j].access = access}}

C11_ArgumentOrder ==
  /\ (ret.op = "kernel_call" /\ ret.exc = "none") =>
        LET c == ret.arg
            args == kercall.args
        IN /\ InCallOrder(args, c.has_Idx)
           /\ Len(args) = Cardinality(DOMAIN c.inputs) + Cardinality(DOMAIN c.outputs)
                            + Cardinality(DOMAIN c.inputoutput) + (IF c.has_Idx THEN 1 ELSE 0)
           /\ FieldsWith(args, "ops_arg_dat", "OPS_READ") = DOMAIN c.inputs \cap GridFields
           /\ FieldsWith(args, "ops_arg_dat", "OPS_WRITE") = DOMAIN c.outputs \cap GridFields
           /\ FieldsWith(args, "ops_arg_dat", "OPS_RW") = DOMAIN c.inputoutput \cap GridFields
           /\ FieldsWith(args, "ops_arg_gbl", "OPS_READ") = DOMAIN c.inputs \ GridFields
           /\ FieldsWith(args, "ops_arg_gbl", "OPS_WRITE") = DOMAIN c.outputs \ GridFields
           /\ FieldsWith(args, "ops_arg_gbl", "OPS_RW") = DOMAIN c.inputoutput \ GridFields
  /\ (ret.op = "opsc_code" /\ ret.exc = "none") =>
        LET o == opsc_out[ret.k]
            eqs == equations[ret.k]
        IN /\ InCallOrder(o.args, \E i \in DOMAIN eqs : eqs[i].idx)
           /\ Len(o.args) = Cardinality(o.ins) + Cardinality(o.outs) + Cardinality(o.inouts)
                              + Cardinality(UNION {eqs[i].consts : i \in DOMAIN eqs})
                              + (IF \E i \in DOMAIN eqs : eqs[i].idx THEN 1 ELSE 0)
           /\ FieldsWith(o.args, "ops_arg_dat", "OPS_READ") = o.ins
           /\ FieldsWith(o.args, "ops_arg_dat", "OPS_WRITE") = o.outs
           /\ FieldsWith(o.args, "ops_arg_dat", "OPS_RW") = o.inouts
           /\ FieldsWith(o.args, "ops_arg_gbl", "OPS_READ")
                 = UNION {eqs[i].consts : i \in DOMAIN eqs}

\* the emitter has issued a call with a grid field and a global in the
\* inputs, both kinds in the outputs, an input-output field and the grid index
C11_Witness ==
  /\ ret.op = "kernel_call" /\ ret.exc = "none"
  /\ DOMAIN ret.arg.inputs = {"f", "dt"}
  /\ DOMAIN ret.arg.outputs = {"g", "res"}
  /\ DOMAIN ret.arg.inputoutput = {"h"}
  /\ ret.arg.has_Idx
  /\ Len(kercall.args) = 6
  /\ kercall.args[4].field = "dt"
  /\ kercall.args[6] = IdxArg

(***************************************************************************)
(* The code printer: ccode and OPSCCodePrinter.  The expressions printed   *)
(* are numbers, indexed accesses and equalities of these.  A number is a   *)
(* sympy Rational p/q: the constructor reduces it to lowest terms with a   *)
(* positive denominator, and a number whose denominator is then 1 is of    *)
(* class Integer.                                                          *)
(***************************************************************************)
RECURSIVE gcd(_, _)
gcd(a, b) == IF b = 0 THEN a ELSE gcd(b, a % b)

abs(n) == IF n < 0 THEN -n ELSE n

\* sympy.Rational(p, q), q # 0
Rational(p, q) ==
  LET g == gcd(abs(p), abs(q))
      s == IF q < 0 THEN -1 ELSE 1
  IN [kind |-> "Rational", p |-> s * (p \div g), q |-> abs(q) \div g]

\* isinstance(n, Integer)
is_Integer(n) == n.q = 1

\* a Kernel.Rational_constants that keeps the integers
Rational_constants_unfiltered(eqs) == UNION {eqs[i].rationals : i \in DOMAIN eqs}

\* Kernel.Rational_constants; eq.atoms(Rational) is the field rationals
Rational_constants(eqs) ==
  {rc \in UNION {eqs[i].rationals : i \in DOMAIN eqs} : ~is_Integer(rc)}

\* the property read on kernel k
RationalConstants(k) ==
  /\ ret' = Call("Rational_constants", k, Rational_constants(equations[k]), "none")
  /\ UNCHANGED <<kvars, bvars, hvars, evars>>

\* the Integer printer OPSCCodePrinter inherits
print_Integer(n) == ToString(n.p)

\* OPSCCodePrinter._print_Rational
print_Rational(n) == ToString(n.p) \o ".0/" \o ToString(n.q) \o ".0"

\* a printer without the inherited Integer method
print_every_Rational(n) == print_Rational(n)

\* the printer's dispatch on the class of a number: the method of the most
\* derived class is taken, _print_Integer for an Integer
print_number(n) == IF is_Integer(n) THEN print_Integer(n) ELSE print_Rational(n)

Indexed(base, indices) == [kind |-> "Indexed", base |-> base, indices |-> indices]

Eq(lhs, rhs) == [kind |-> "Eq", lhs |-> lhs, rhs |-> rhs]

\* the tag tables handed to ccode: None, or a dict from base to OPS_ACC tag or None
NoTable == [given |-> FALSE]

Table(accs) == [given |-> TRUE, accs |-> accs]

\* OPSCCodePrinter._print_Indexed
print_Indexed(expr, Indexed_accs) ==
  LET offsets == [n \in DOMAIN expr.indices |-> subs_symbols(expr.indices[n])]
  IN IF ~Indexed_accs.given THEN [text |-> "", exc |-> "TypeError"]
     ELSE IF expr.base \notin DOMAIN Indexed_accs.accs THEN [text |-> "", exc |-> "KeyError"]
     ELSE IF Indexed_accs.accs[expr.base] # "None"
          THEN [text |-> expr.base \o "[" \o Indexed_accs.accs[expr.base] \o "("
                           \o lsit_to_string(offsets) \o ")]",
                exc |-> "none"]
          ELSE [text |-> expr.base \o "[" \o lsit_to_string(offsets) \o "]", exc |-> "none"]

\* OPSCCodePrinter.doprint on a number or an indexed access
doprint(expr, Indexed_accs) ==
  IF expr.kind = "Rational" THEN [text |-> print_number(expr), exc |-> "none"]
  ELSE print_Indexed(expr, Indexed_accs)

\* ccode
ccode(expr, Indexed_accs) ==
  IF expr.kind = "Eq"
  THEN LET l == doprint(expr.lhs, Indexed_accs)
           r == doprint(expr.rhs, Indexed_accs)
       IN IF l.exc # "none" THEN l
          ELSE IF r.exc # "none" THEN r
          ELSE [text |-> l.text \o " = " \o r.text, exc |-> "none"]
  ELSE doprint(expr, Indexed_accs)

Ccode(expr, Indexed_accs) ==
  /\ printed' = ccode(expr, Indexed_accs)
  /\ ret' = Call("ccode", 0, [expr |-> expr, Indexed_accs |-> Indexed_accs], printed'.exc)
  /\ UNCHANGED <<kvars, bvars, hvars, stencil_dictionary, stencil_number, stencils,
                 iteration_range_index, kercall, gen, contributed>>

(***************************************************************************)
(* The emitter OPSC.  Constructing it runs check_consistency,              *)
(* initialise_ops_parameters and template; template is followed statement  *)
(* by statement, gen.pc naming the last statement completed and gen.exc    *)
(* the exception that ended the construction.  The collaborators handed to *)
(* the constructor are lists with one entry per block (listvar wraps a     *)
(* single object in a list):                                               *)
(*   grid                     shapes                                       *)
(*   spatial_discretisation   [computations]                               *)
(*   temporal_discretisation  [computations, start_computations,           *)
(*                             end_computations]                           *)
(*   boundary                 [type, transfers]                            *)
(*   initial_conditions       [computations]                               *)
(*   IO                       [save_after, save_arrays]                    *)
(* fs is the build directory: the code directory, the kernel-definition    *)
(* files and the main program file.                                        *)
(***************************************************************************)
MaxBlocks == 2     \* entries a collaborator list may have

SimulationName == "test"

\* the collaborators in the order check_consistency stores and checks them
Collaborators ==
  <<"spatial_discretisation", "temporal_discretisation", "boundary",
    "initial_conditions", "IO">>

\* the first collaborator whose length differs from the grid's, 0 when none does
first_mismatch(sim) ==
  LET bad == {i \in DOMAIN Collaborators : Len(sim[Collaborators[i]]) # Len(sim.grid)}
  IN IF bad = {} THEN 0 ELSE Min(bad)

\* the attributes check_consistency has assigned when it returns or raises
stored_collaborators(sim) ==
  {"grid"} \cup {Collaborators[i] : i \in {j \in DOMAIN Collaborators :
                                              first_mismatch(sim) = 0 \/ j <= first_mismatch(sim)}}

\* an emitter that has stored everything without checking the lengths
check_consistency_unchecked(sim) ==
  [stored |-> {"grid"} \cup Range(Collaborators), exc |-> "none"]

check_consistency(sim) ==
  [stored |-> stored_collaborators(sim),
   exc |-> IF first_mismatch(sim) = 0 THEN "none" ELSE "AlgorithmError"]

NoFiles == [dir |-> FALSE, kernel_files |-> EmptyMap, main_file |-> FALSE, main_text |-> <<>>]

\* dict.update for every grid in turn: a later grid's entry replaces an earlier one
RECURSIVE update_from_grids(_, _, _)
update_from_grids(params, grid, i) ==
  IF i > Len(grid) THEN params
  ELSE update_from_grids(grid[i].grid_data_dictionary @@ params, grid, i + 1)

\* OPSC.__init__ (lines 111-116): check_consistency on the collaborators, then
\* the caller's dict of simulation parameters is stored and updated in place
\* from the grids; when check_consistency raises the attribute is never assigned
Construct(sim) ==
  LET c == check_consistency(sim)
      assigned == c.exc = "none"
      params == IF assigned THEN update_from_grids(sim.simulation_parameters, sim.grid, 1)
                ELSE sim.simulation_parameters
  IN /\ gen.pc = "none"
     /\ gen' = [pc |-> "check_consistency", exc |-> c.exc,
                sim |-> [sim EXCEPT !.simulation_parameters = params], stored |-> c.stored,
                params |-> FALSE, multiblock |-> FALSE, nblocks |-> 0, ndim |-> 0,
                kernel_name_number |-> <<>>, halo_exchange_number |-> 0,
                grid_based_arrays |-> {}, constants |-> {}, constants_order |-> <<>>,
                has_simulation_parameters |-> assigned,
                simulation_parameters |-> IF assigned THEN params ELSE EmptyMap,
                names |-> EmptyMap, fs |-> NoFiles, code |-> EmptyMap]
     /\ ret' = Call("check_consistency", 0, sim, c.exc)
     /\ UNCHANGED <<kvars, bvars, hvars, contributed, stencil_dictionary, stencil_number,
                    stencils, iteration_range_index, kercall, printed>>

\* the value of an expression evaluated once: the element of a singleton
Only(S) == CHOOSE x \in S : TRUE

\* the step after statement `after`, in an emitter that has not raised
At(after) == gen.pc = after /\ gen.pc # "none" /\ gen.exc = "none"

\* what a statement of template that emits no kernel call leaves alone
rvars == <<stencil_dictionary, stencil_number, stencils, iteration_range_index, kercall, printed>>

\* OPSC.initialise_ops_parameters
InitialiseOpsParameters ==
  LET grid == gen.sim.grid
      ndim == {Len(grid[i].shape) : i \in DOMAIN grid}
  IN /\ At("check_consistency")
     /\ IF Cardinality(ndim) # 1
        THEN /\ gen' = [gen EXCEPT !.exc = "ValueError",
                                   !.multiblock = Len(grid) # 1, !.nblocks = Len(grid)]
             /\ UNCHANGED <<stencil_dictionary, stencil_number, iteration_range_index>>
        ELSE /\ gen' = [gen EXCEPT !.pc = "initialise_ops_parameters",
                                   !.params = TRUE,
                                   !.multiblock = Len(grid) # 1,
                                   !.nblocks = Len(grid),
                                   !.ndim = CHOOSE n \in ndim : TRUE,
                                   !.kernel_name_number = [b \in DOMAIN grid |-> 0],
                                   !.halo_exchange_number = 0,
                                   !.fs.dir = TRUE]
             /\ stencil_dictionary' = EmptyMap
             /\ stencil_number' = 0
             /\ iteration_range_index' = 0
     /\ ret' = Call("initialise_ops_parameters", 0, 0, gen'.exc)
     /\ UNCHANGED <<kvars, bvars, hvars, stencils, kercall, printed, contributed>>

block_name == SimulationName \o "_block"

\* OPSC.define_block
define_block(multiblock, nblocks) ==
  [exc |-> "none",
   code |-> <<"// Defining block in OPS Format">>
              \o (IF ~multiblock THEN <<"ops_block  " \o block_name \o ";">>
                  ELSE <<"ops_block *" \o block_name \o " = (ops_block *)malloc("
                           \o ToString(nblocks) \o "*sizeof(ops_block*));">>)]

\* OPSC.initialise_block
initialise_block(multiblock, ndim) ==
  IF ~multiblock
  THEN [exc |-> "none",
        code |-> <<"// Initialising block in OPS Format",
                   block_name \o " = ops_decl_block(" \o ToString(ndim) \o ", \""
                      \o block_name \o "\");">>]
  ELSE [exc |-> "NotImplementedError", code |-> <<>>]

\* OPSC.define_dat; arrays is grid_based_arrays in its iteration order
define_dat(multiblock, arrays) ==
  IF ~multiblock
  THEN [exc |-> "none",
        code |-> <<"// Define data files">> \o [i \in DOMAIN arrays |-> "ops_dat " \o arrays[i] \o ";"]]
  ELSE [exc |-> "NotImplementedError", code |-> <<>>]

\* OPSC.initialise_dat: the declarations of the arrays (the halo, size and
\* base arrays before them are the same for every array)
initialise_dat(multiblock, arrays) ==
  IF ~multiblock
  THEN [exc |-> "none",
        code |-> <<"// Initialize/ Allocate data files">>
                   \o [i \in DOMAIN arrays |->
                         arrays[i] \o " = ops_decl_dat(" \o block_name
                           \o ", 1, size, base, halo_m, halo_p, val, \"double\", \""
                           \o arrays[i] \o "\");"]]
  ELSE [exc |-> "NotImplementedError", code |-> <<>>]

\* OPSC.declare_stencils; order is stencil_dictionary in its iteration order
declare_stencils(dict, order) ==
  [exc |-> "none",
   code |-> <<"// Declare all the stencils used ">>
              \o [i \in DOMAIN order |-> "ops_stencil " \o dict[order[i]] \o " = ops_decl_stencil("
                                           \o order[i] \o ");"]]

\* OPSC.main_start
main_start == <<"// main program start", "int main (int argc, char **argv) ", "{">>

\* OPSC.ops_init with the default diagnostics level
ops_init == <<"// Initializing OPS ", "ops_init(argc,argv,1);">>

\* OPSC.footer, OPSC.ops_exit
footer == <<"// Exit OPS ", "ops_exit();">>

\* OPSC.ops_partition
ops_partition == <<"// Init OPS partition", "ops_partition(\" \");">>

\* OPSC.ops_timers and ops_print_timings
ops_timers ==
  [timer_start |-> <<"double cpu_start, elapsed_start;",
                     "ops_timers(&cpu_start, &elapsed_start);">>,
   timer_end |-> <<"double cpu_end, elapsed_end;", "ops_timers(&cpu_end, &elapsed_end);">>,
   print_timings |-> <<"ops_printf(\"\\nTimings are:\\n\");",
                       "ops_printf(\"-----------------------------------------\\n\");",
                       "ops_printf(\"Total Wall time %lf\\n\",elapsed_end-elapsed_start);">>]

\* OPSC.loop_open, OPSC.loop_close
loop_open(var, lower, upper) ==
  "for (int " \o var \o "=" \o ToString(lower) \o "; " \o var \o "<" \o ToString(upper)
     \o "; " \o var \o "++){"

loop_close == "}"

\* a value of simulation_parameters: a number or a list of numbers
Scalar(x) == [islist |-> FALSE, val |-> <<x>>]

Values(xs) == [islist |-> TRUE, val |-> xs]

\* template, lines 227-244: the holes that depend on nothing but the
\* simulation parameters
MainFrame ==
  /\ At("initialise_ops_parameters")
  /\ \E found \in {"niter" \in DOMAIN gen.simulation_parameters} :
     /\ gen' = [gen EXCEPT
                  !.pc = IF found THEN "timeloop" ELSE @,
                  !.exc = IF found THEN "none" ELSE "KeyError",
                  !.code = IF found
                           THEN ("main_start" :> main_start) @@ ("main_end" :> <<"}">>)
                                  @@ ("ops_init" :> ops_init) @@ ("ops_exit" :> footer)
                                  @@ ("ops_partition" :> ops_partition)
                                  @@ ("timer_start" :> ops_timers.timer_start)
                                  @@ ("timer_end" :> ops_timers.timer_end)
                                  @@ ("print_timings" :> ops_timers.print_timings)
                                  @@ ("timeloop" :>
                                        <<loop_open("iteration", 0,
                                            gen.simulation_parameters["niter"].val[1].p)>>)
                                  @@ ("end_time_loop" :> <<loop_close>>) @@ @
                           ELSE @]
     /\ ret' = Call("timeloop", 0, 0, gen'.exc)
     /\ UNCHANGED <<kvars, bvars, hvars, rvars, contributed>>

\* template, line 247
DefineBlock ==
  /\ At("timeloop")
  /\ \E r \in {define_block(gen.multiblock, gen.nblocks)} :
     /\ gen' = [gen EXCEPT !.pc = IF r.exc = "none" THEN "define_block" ELSE @,
                           !.exc = r.exc,
                           !.code = IF r.exc = "none" THEN ("define_block" :> r.code) @@ @ ELSE @]
     /\ ret' = Call("define_block", 0, gen.multiblock, r.exc)
     /\ UNCHANGED <<kvars, bvars, hvars, rvars, contributed>>

\* template, line 248
InitialiseBlock ==
  /\ At("define_block")
  /\ \E r \in {initialise_block(gen.multiblock, gen.ndim)} :
     /\ gen' = [gen EXCEPT !.pc = IF r.exc = "none" THEN "initialise_block" ELSE @,
                           !.exc = r.exc,
                           !.code = IF r.exc = "none" THEN ("initialise_block" :> r.code) @@ @ ELSE @]
     /\ ret' = Call("initialise_block", 0, gen.multiblock, r.exc)
     /\ UNCHANGED <<kvars, bvars, hvars, rvars, contributed>>

\* template, lines 254-265: the loop over the stages of the time scheme, whose
\* coefficients become simulation parameters; the dict is the caller's object,
\* so the caller's dict (gen.sim.simulation_parameters) takes the same entries
InnerLoop ==
  /\ At("initialise_block")
  /\ \E t \in {gen.sim.temporal_discretisation[1]} :
     /\ gen' = [gen EXCEPT
                  !.pc = "innerloop",
                  !.simulation_parameters = IF t.nstages > 1 THEN t.coeffs @@ @ ELSE @,
                  !.sim.simulation_parameters = IF t.nstages > 1 THEN t.coeffs @@ @ ELSE @,
                  !.code = ("innerloop" :> IF t.nstages > 1
                                           THEN <<loop_open(t.stage, 0, t.nstages)>>
                                           ELSE <<>>)
                             @@ ("end_inner_loop" :> IF t.nstages > 1 THEN <<loop_close>>
                                                     ELSE <<>>) @@ @]
     /\ ret' = Call("innerloop", 0, t.nstages, "none")
     /\ UNCHANGED <<kvars, bvars, hvars, rvars, contributed>>

(***************************************************************************)
(* The kernel definitions.  A computation of the emitter is an object      *)
(* (id) that may sit in several lists; kernel_computation names it when it *)
(* has no name, and the name lives with the object (gen.names).            *)
(***************************************************************************)
\* block_comps of get_block_computations for one block
block_comps(sim, block) ==
  sim.spatial_discretisation[block].computations
    \o sim.initial_conditions[block].computations
    \o sim.temporal_discretisation[block].computations
    \o sim.temporal_discretisation[block].start_computations
    \o sim.temporal_discretisation[block].end_computations

\* a kernel name without the number of the kernel
computational_kernel_name_unnumbered(block, number) ==
  SimulationName \o "_block" \o ToString(block - 1) \o "_kernel"

\* self.computational_kernel_names[block] % number, blocks counted from 0
computational_kernel_name(block, number) ==
  SimulationName \o "_block" \o ToString(block - 1) \o "_" \o ToString(number) \o "_kernel"

\* an update_definitions that looks at the inputs only
keys_of_inputs(computation, grid) ==
  {key \in DOMAIN computation.inputs : is_grid(key) = grid}

\* the keys of the three dicts that update_definitions adds to the arrays
\* (grid) and to the constants (not grid)
keys_of(computation, grid) ==
  {key \in DOMAIN computation.inputs \cup DOMAIN computation.outputs
              \cup DOMAIN computation.inputoutput : is_grid(key) = grid}

\* self.dtype, simulation_parameters['precision']
Precision == "double"

\* OPSC.ops_header: one parameter of a kernel function
ops_header(group, dtype, name) ==
  IF group = "inputs" THEN "const " \o dtype \o " *" \o name
  ELSE IF group = "Idx" THEN "const int *" \o name
  ELSE dtype \o " *" \o name

\* the parameters of the three dicts with the input-output keys first
header_params_inout_first(computation, grid) ==
  LET par(order, group) ==
        [n \in DOMAIN select_keys(order, grid) |->
           ops_header(group, Precision, select_keys(order, grid)[n])]
  IN par(computation.ioorder, "inputoutput") \o par(computation.iorder, "inputs")
       \o par(computation.oorder, "outputs")

\* grid_based and nongrid of kernel_computation (lines 613-620); the keys of
\* a dict come in the order computation.iorder, oorder, ioorder hold, the
\* order in which that dict is iterated every time
header_params(computation, grid) ==
  LET par(order, group) ==
        [n \in DOMAIN select_keys(order, grid) |->
           ops_header(group, Precision, select_keys(order, grid)[n])]
  IN par(computation.iorder, "inputs") \o par(computation.oorder, "outputs")
       \o par(computation.ioorder, "inputoutput")

\* a numbering that starts again from 0 in each dict
get_OPS_ACC_number_per_dict(computation) ==
  LET tag(order, key) ==
        "OPS_ACC" \o ToString(Max({no \in DOMAIN select_keys(order, TRUE) :
                                      select_keys(order, TRUE)[no] = key}) - 1)
  IN [key \in DOMAIN computation.inputs \cup DOMAIN computation.outputs
                 \cup DOMAIN computation.inputoutput |->
        IF ~is_grid(key) THEN "None"
        ELSE IF key \in DOMAIN computation.inputoutput THEN tag(computation.ioorder, key)
        ELSE IF key \in DOMAIN computation.outputs THEN tag(computation.oorder, key)
        ELSE tag(computation.iorder, key)]

\* OPSC.get_OPS_ACC_number: the dict from field to 'OPS_ACCn' or None.  A key
\* enumerated twice keeps the number assigned last.
get_OPS_ACC_number(computation) ==
  LET allidbs == computation.iorder \o computation.oorder \o computation.ioorder
      grid_based == select_keys(allidbs, TRUE)
  IN [key \in Range(allidbs) |->
        IF is_grid(key)
        THEN "OPS_ACC" \o ToString(Max({no \in DOMAIN grid_based : grid_based[no] = key}) - 1)
        ELSE "None"]

\* the statements of a kernel body, last equation first
RECURSIVE kernel_body_reversed(_, _)
kernel_body_reversed(eqs, ops_accs) ==
  IF eqs = <<>> THEN [code |-> <<>>, exc |-> "none"]
  ELSE Only({IF p.exc # "none" THEN [code |-> <<>>, exc |-> p.exc]
             ELSE Only({[code |-> Append(rest.code, p.text \o ";"), exc |-> rest.exc] :
                        rest \in {kernel_body_reversed(Tail(eqs), ops_accs)}}) :
             p \in {ccode(Head(eqs), ops_accs)}})

\* the loop of kernel_computation over computation.equations (lines 629-630)
RECURSIVE kernel_body(_, _)
kernel_body(eqs, ops_accs) ==
  IF eqs = <<>> THEN [code |-> <<>>, exc |-> "none"]
  ELSE Only({IF p.exc # "none" THEN [code |-> <<>>, exc |-> p.exc]
             ELSE Only({[code |-> <<p.text \o ";">> \o rest.code, exc |-> rest.exc] :
                        rest \in {kernel_body(Tail(eqs), ops_accs)}}) :
             p \in {ccode(Head(eqs), ops_accs)}})

\* the code kernel_computation returns for a computation called `name`: the
\* function name, its parameters and the statements of its body (the comment
\* with the operation counts is left out), with the tags ops_accs it printed
\* the body with
kernel_computation(computation, name) ==
  Only({[name |-> name,
         params |-> header_params(computation, TRUE) \o header_params(computation, FALSE)
                      \o (IF computation.has_Idx THEN <<ops_header("Idx", Precision, "idx")>>
                          ELSE <<>>),
         ops_accs |-> get_OPS_ACC_number(computation),
         body |-> b.code,
         exc |-> b.exc] :
        b \in {kernel_body(computation.equations, Table(get_OPS_ACC_number(computation)))}})

\* a counter that stays where it is
kernel_name_number_kept(number) == number

\* self.kernel_name_number[block_number] + 1 (line 635)
next_kernel_name_number(number) == number + 1

\* kernel_computation over the computations of one block: st holds the
\* names, the kernel number of the block, the arrays and constants to
\* declare (update_definitions), the kernels defined so far and the
\* exception that ended the loop
RECURSIVE kernel_computations(_, _, _)
kernel_computations(comps, block, st0) ==
  Only({IF comps = <<>> \/ st.exc # "none" THEN st
        ELSE Only({IF k.exc # "none"
                   THEN [st EXCEPT !.names[Head(comps).id] = k.name, !.exc = k.exc]
                   ELSE kernel_computations(Tail(comps), block,
                          [names |-> [st.names EXCEPT ![Head(comps).id] = k.name],
                           number |-> next_kernel_name_number(st.number),
                           arrays |-> st.arrays \cup keys_of(Head(comps), TRUE),
                           constants |-> st.constants \cup keys_of(Head(comps), FALSE)
                                           \cup Head(comps).constants,
                           kernels |-> Append(st.kernels, [id |-> Head(comps).id,
                                                           name |-> k.name,
                                                           params |-> k.params,
                                                           ops_accs |-> k.ops_accs,
                                                           body |-> k.body]),
                           exc |-> "none"]) :
                   k \in {kernel_computation(Head(comps),
                            IF st.names[Head(comps).id] = "None"
                            THEN computational_kernel_name(block, st.number)
                            ELSE st.names[Head(comps).id])}}) :
        st \in {st0}})

\* the names the computations of the simulation were created with
given_names(sim) ==
  LET all == UNION {Range(block_comps(sim, b)) : b \in DOMAIN sim.grid}
  IN [id \in {c.id : c \in all} |-> (CHOOSE c \in all : c.id = id).name]

\* get_block_computations for the blocks from `block` on
RECURSIVE get_block_computations(_, _, _)
get_block_computations(sim, block, st0) ==
  Only({IF block > Len(sim.grid) \/ st.exc # "none" THEN st
        ELSE Only({get_block_computations(sim, block + 1,
                     [names |-> r.names, arrays |-> r.arrays, constants |-> r.constants,
                      number |-> Append(st.number, r.number),
                      kernels |-> Append(st.kernels, r.kernels), exc |-> r.exc]) :
                   r \in {kernel_computations(block_comps(sim, block), block,
                            [names |-> st.names, number |-> 0, arrays |-> st.arrays,
                             constants |-> st.constants, kernels |-> <<>>,
                             exc |-> "none"])}}) :
        st \in {st0}})

\* template, lines 268-270: get_block_computations, write_computational_routines
WriteComputationalRoutines ==
  /\ At("innerloop")
  /\ \E r \in {get_block_computations(gen.sim, 1,
             [names |-> given_names(gen.sim), arrays |-> {}, constants |-> {},
              number |-> <<>>, kernels |-> <<>>, exc |-> "none"])} :
     /\ gen' = [gen EXCEPT !.pc = IF r.exc = "none" THEN "write_computational_routines" ELSE @,
                           !.exc = r.exc,
                           !.names = r.names,
                           !.kernel_name_number = r.number
                                                    \o [b \in 1..(gen.nblocks - Len(r.number)) |-> 0],
                           !.grid_based_arrays = r.arrays,
                           !.constants = r.constants,
                           !.fs.kernel_files = IF r.exc = "none"
                                               THEN [b \in 1..gen.nblocks |-> r.kernels[b]]
                                               ELSE @]
     /\ ret' = Call("write_computational_routines", 0, 0, r.exc)
     /\ UNCHANGED <<kvars, bvars, hvars, rvars, contributed>>

(***************************************************************************)
(* The kernel calls of a phase.  kernel_call iterates the dicts of a       *)
(* computation in the same orders as kernel_computation did.               *)
(***************************************************************************)
\* the instances of a block handled last to first
RECURSIVE instance_calls_reversed(_, _, _)
instance_calls_reversed(instances, names, acc0) ==
  Only({IF instances = <<>> \/ acc.exc # "none" THEN acc
        ELSE Only({instance_calls_reversed(SubSeq(instances, 1, Len(instances) - 1), names,
                     [em |-> [dict |-> r.dict, number |-> r.number, index |-> r.index],
                      calls |-> IF r.exc = "none" THEN Append(acc.calls, r.call)
                                ELSE acc.calls,
                      exc |-> r.exc]) :
                   r \in {kernel_call(acc.em, [c EXCEPT !.name = names[c.id]],
                                      c.iorder, c.oorder, c.ioorder) : c \in {instances[Len(instances)]}}}) :
        acc \in {acc0}})

\* the loop of get_block_computation_kernels over the instances of a block
RECURSIVE instance_calls(_, _, _)
instance_calls(instances, names, acc0) ==
  Only({IF instances = <<>> \/ acc.exc # "none" THEN acc
        ELSE Only({instance_calls(Tail(instances), names,
                     [em |-> [dict |-> r.dict, number |-> r.number, index |-> r.index],
                      calls |-> IF r.exc = "none" THEN Append(acc.calls, r.call)
                                ELSE acc.calls,
                      exc |-> r.exc]) :
                   r \in {kernel_call(acc.em, [c EXCEPT !.name = names[c.id]],
                                      c.iorder, c.oorder, c.ioorder) : c \in {Head(instances)}}}) :
        acc \in {acc0}})

\* get_block_computation_kernels; the calls of the blocks joined in block order
RECURSIVE get_block_computation_kernels(_, _, _, _)
get_block_computation_kernels(instances, block, names, acc) ==
  IF block > Len(instances) THEN acc
  ELSE get_block_computation_kernels(instances, block + 1, names,
         instance_calls(instances[block], names, acc))

\* template, lines 272-298: the calls of one phase stored under `section`
PhaseCalls(after, section, instances) ==
  /\ At(after)
  /\ \E r \in {get_block_computation_kernels(instances, 1, gen.names,
             [em |-> [dict |-> stencil_dictionary, number |-> stencil_number,
                      index |-> iteration_range_index],
              calls |-> <<>>, exc |-> "none"])} :
     /\ stencil_dictionary' = r.em.dict
     /\ stencil_number' = r.em.number
     /\ iteration_range_index' = r.em.index
     /\ gen' = [gen EXCEPT !.pc = IF r.exc = "none" THEN section ELSE @,
                           !.exc = r.exc,
                           !.code = IF r.exc = "none" THEN (section :> r.calls) @@ @ ELSE @]
     /\ ret' = Call(section, 0, instances, r.exc)
     /\ UNCHANGED <<kvars, bvars, hvars, stencils, kercall, printed, contributed>>

TimeCalls ==
  PhaseCalls("write_computational_routines", "time_calls",
             [b \in 1..gen.nblocks |-> gen.sim.spatial_discretisation[b].computations
                                         \o gen.sim.temporal_discretisation[b].computations])

TimeStartCalls ==
  PhaseCalls("time_calls", "time_start_calls",
             [b \in 1..gen.nblocks |-> gen.sim.temporal_discretisation[b].start_computations])

TimeEndCalls ==
  PhaseCalls("time_start_calls", "time_end_calls",
             [b \in 1..gen.nblocks |-> gen.sim.temporal_discretisation[b].end_computations])

InitialisationCalls ==
  PhaseCalls("time_end_calls", "initialisation",
             [b \in 1..gen.nblocks |-> gen.sim.initial_conditions[b].computations])

(***************************************************************************)
(* Boundary conditions and IO.                                             *)
(***************************************************************************)
halo_exchange_name(number) == "halo_exchange" \o ToString(number)

\* the loop of update_boundary_conditions over the instances of one block;
\* bc_exchange_call_code declares a halo group for the transfer and calls it
RECURSIVE boundary_instances(_, _, _)
boundary_instances(boundary, instance, acc0) ==
  Only({IF instance > Len(boundary.type) \/ acc.exc # "none" THEN acc
        ELSE IF boundary.type[instance] = "exchange_self"
             THEN boundary_instances(boundary, instance + 1,
                    [number |-> acc.number + 1,
                     bc_exchange |-> Append(acc.bc_exchange,
                                       [group |-> halo_exchange_name(acc.number),
                                        arrays |-> boundary.transfers[instance]]),
                     bc_calls |-> Append(acc.bc_calls,
                                    "ops_halo_transfer(" \o halo_exchange_name(acc.number)
                                       \o ");"),
                     exc |-> "none"])
             ELSE [acc EXCEPT !.exc = "NotImplementedError"] :
        acc \in {acc0}})

RECURSIVE update_boundary_conditions(_, _, _)
update_boundary_conditions(boundary, block, acc) ==
  IF block > Len(boundary) THEN acc
  ELSE update_boundary_conditions(boundary, block + 1,
         boundary_instances(boundary[block], 1, acc))

\* template, line 301
UpdateBoundaryConditions ==
  /\ At("initialisation")
  /\ \E r \in {update_boundary_conditions(gen.sim.boundary, 1,
             [number |-> gen.halo_exchange_number, bc_exchange |-> <<>>,
              bc_calls |-> <<>>, exc |-> "none"])} :
     /\ gen' = [gen EXCEPT !.pc = IF r.exc = "none" THEN "update_boundary_conditions" ELSE @,
                           !.exc = r.exc,
                           !.halo_exchange_number = r.number,
                           !.code = IF r.exc = "none"
                                    THEN ("bc_exchange" :> r.bc_exchange)
                                           @@ ("bc_calls" :> r.bc_calls) @@ @
                                    ELSE @]
     /\ ret' = Call("update_boundary_conditions", 0, gen.sim.boundary, r.exc)
     /\ UNCHANGED <<kvars, bvars, hvars, rvars, contributed>>

\* the entries of save_after: Python values, a bool being an integer too
PyBool(b) == [type |-> "bool", value |-> IF b THEN 1 ELSE 0]

PyInt(n) == [type |-> "int", value |-> n]

\* Python's a == b on these values
py_eq(a, b) == a.value = b.value

\* OPSC.HDF5_array_fileIO
HDF5_array_fileIO(instance) ==
  <<[call |-> "ops_fetch_block_hdf5_file", of |-> block_name, file |-> "state.h5"]>>
    \o [i \in DOMAIN instance.save_arrays |->
          [call |-> "ops_fetch_dat_hdf5_file", of |-> instance.save_arrays[i],
           file |-> "state.h5"]]

\* a get_io that takes any non-empty save_after
saves_at_end_any(save_at) == Len(save_at) >= 1

\* the condition of get_io on save_after
saves_at_end(save_at) == Len(save_at) = 1 /\ py_eq(save_at[1], PyBool(TRUE))

RECURSIVE get_io(_, _, _)
get_io(IO, block, acc0) ==
  Only({IF block > Len(IO) \/ acc.exc # "none" THEN acc
        ELSE IF saves_at_end(IO[block].save_after)
             THEN get_io(IO, block + 1,
                         [acc EXCEPT !.io_calls = @ \o HDF5_array_fileIO(IO[block])])
             ELSE [acc EXCEPT !.exc = "NotImplementedError"] :
        acc \in {acc0}})

\* template, line 304
GetIO ==
  /\ At("update_boundary_conditions")
  /\ \E r \in {get_io(gen.sim.IO, 1, [io_calls |-> <<>>, exc |-> "none"])} :
     /\ gen' = [gen EXCEPT !.pc = IF r.exc = "none" THEN "get_io" ELSE @,
                           !.exc = r.exc,
                           !.code = IF r.exc = "none"
                                    THEN ("io_calls" :> r.io_calls) @@ ("io_time" :> <<>>) @@ @
                                    ELSE @]
     /\ ret' = Call("get_io", 0, gen.sim.IO, r.exc)
     /\ UNCHANGED <<kvars, bvars, hvars, rvars, contributed>>

\* self.computational_routines_filename[block], blocks counted from 0
computational_routines_filename(block) ==
  SimulationName \o "_block_" \o ToString(block - 1) \o "_kernel.h"

\* the constants that are IndexedBase objects, each with its con.ranges; every
\* other constant is a plain symbol
ConstantRanges == ("a" :> 2) @@ ("b" :> 1)

is_IndexedBase(con) == con \in DOMAIN ConstantRanges

\* OPSC.header; constants is self.constants in its iteration order
header(constants, ndim, nblocks) ==
  <<"#include <stdlib.h>", "#include <string.h>", "#include <math.h>",
    "// Global Constants in the equations are">>
    \o [i \in DOMAIN constants |->
          IF is_IndexedBase(constants[i])
          THEN Precision \o " " \o constants[i] \o "["
                 \o ToString(ConstantRanges[constants[i]]) \o "];"
          ELSE Precision \o " " \o constants[i] \o ";"]
    \o <<"// OPS header file", "#define OPS_" \o ToString(ndim) \o "D",
         "#include \"ops_seq.h\"">>
    \o [b \in 1..nblocks |-> "#include \"" \o computational_routines_filename(b) \o "\""]

\* template, lines 307-313: define_dat, initialise_dat, header, declare_stencils.
\* The three sets are iterated in the orders aorder, sorder, corder; the order
\* of self.constants is the same every time the set is iterated.
Declarations(aorder, sorder, corder) ==
  LET dd == define_dat(gen.multiblock, aorder)
      id == initialise_dat(gen.multiblock, aorder)
      ds == declare_stencils(stencil_dictionary, sorder)
      exc == IF dd.exc # "none" THEN dd.exc ELSE IF id.exc # "none" THEN id.exc ELSE ds.exc
  IN /\ At("get_io")
     /\ aorder \in Orders(gen.grid_based_arrays)
     /\ sorder \in Orders(DOMAIN stencil_dictionary)
     /\ corder \in Orders(gen.constants)
     /\ gen' = [gen EXCEPT !.pc = IF exc = "none" THEN "declare_stencils" ELSE @,
                           !.exc = exc,
                           !.constants_order = corder,
                           !.code = IF exc = "none"
                                    THEN ("define_dat" :> dd.code) @@ ("initialise_dat" :> id.code)
                                           @@ ("header" :> header(corder, gen.ndim, gen.nblocks))
                                           @@ ("declare_stencils" :> ds.code) @@ @
                                    ELSE @]
     /\ ret' = Call("declare_stencils", 0, 0, exc)
     /\ UNCHANGED <<kvars, bvars, hvars, rvars, contributed>>

\* an initialize_constants that writes the values there are and never raises
constant_init_lenient(con, params, acc) ==
  IF con \notin DOMAIN params THEN [acc EXCEPT !.exc = "KeyError", !.message = con]
  ELSE IF is_IndexedBase(con)
  THEN [acc EXCEPT !.code = @ \o [r \in 1..Min({ConstantRanges[con], Len(params[con].val)}) |->
                                    con \o "[" \o ToString(r - 1) \o "] = "
                                      \o ccode(params[con].val[r], NoTable).text \o ";"]]
  ELSE [acc EXCEPT !.code = Append(@, con \o " = " \o ccode(params[con].val[1], NoTable).text
                                        \o ";")]

\* type(x).__name__ of a sympy number: 0, 1, -1 and 1/2 have classes of
\* their own
class_name(x) ==
  IF x.q = 1
  THEN (IF x.p = 0 THEN "Zero" ELSE IF x.p = 1 THEN "One"
        ELSE IF x.p = -1 THEN "NegativeOne" ELSE "Integer")
  ELSE IF x.p = 1 /\ x.q = 2 THEN "Half" ELSE "Rational"

\* the body of the loop of initialize_constants for the constant con (lines
\* 328-336); the value of a plain constant is a number.  A constant without
\* a value raises KeyError(con) at line 328, and len(val) at line 330 raises
\* Python's TypeError for a value that is a number
constant_init(con, params, acc) ==
  IF con \notin DOMAIN params THEN [acc EXCEPT !.exc = "KeyError", !.message = con]
  ELSE IF is_IndexedBase(con)
  THEN IF ~params[con].islist
       THEN [acc EXCEPT !.exc = "TypeError",
                        !.message = "object of type '" \o class_name(params[con].val[1])
                                      \o "' has no len()"]
       ELSE IF ConstantRanges[con] # Len(params[con].val)
       THEN [acc EXCEPT !.exc = "ValueError",
                        !.message = "The indexed constant " \o con \o " should have only "
                                      \o ToString(ConstantRanges[con]) \o " values"]
       ELSE [acc EXCEPT !.code = @ \o [r \in 1..ConstantRanges[con] |->
                                         con \o "[" \o ToString(r - 1) \o "] = "
                                           \o ccode(params[con].val[r], NoTable).text \o ";"]]
  ELSE [acc EXCEPT !.code = Append(@, con \o " = " \o ccode(params[con].val[1], NoTable).text
                                        \o ";")]

\* OPSC.initialize_constants over self.constants in its iteration order
RECURSIVE initialize_constants(_, _, _)
initialize_constants(order, params, acc0) ==
  Only({IF order = <<>> \/ acc.exc # "none" THEN acc
        ELSE initialize_constants(Tail(order), params, constant_init(Head(order), params, acc)) :
        acc \in {acc0}})

\* OPSC.declare_ops_constants
RECURSIVE declare_ops_constants(_)
declare_ops_constants(order) ==
  IF order = <<>> THEN <<>>
  ELSE (IF is_IndexedBase(Head(order)) THEN <<>>
        ELSE <<"ops_decl_const(\"" \o Head(order) \o "\" , 1, \"" \o Precision \o "\", &"
                 \o Head(order) \o ");">>)
         \o declare_ops_constants(Tail(order))

\* template, lines 316-317
InitializeConstants ==
  /\ At("declare_stencils")
  /\ \E r \in {initialize_constants(gen.constants_order, gen.simulation_parameters,
                                    [code |-> <<>>, exc |-> "none", message |-> ""])} :
     /\ gen' = [gen EXCEPT !.pc = IF r.exc = "none" THEN "declare_ops_constants" ELSE @,
                           !.exc = r.exc,
                           !.code = IF r.exc = "none"
                                    THEN ("initialise_constants" :> r.code)
                                           @@ ("declare_ops_constants" :>
                                                 declare_ops_constants(gen.constants_order))
                                           @@ @
                                    ELSE @]
     /\ ret' = Call("initialize_constants", 0, r.message, r.exc)
     /\ UNCHANGED <<kvars, bvars, hvars, rvars, contributed>>

\* a skeleton that still has the hole of the commonly used stencils
OPS_template_with_define_stencils ==
  <<"header", "main_start", "initialise_constants", "ops_init", "declare_ops_constants",
    "define_block", "initialise_block", "define_stencils", "define_dat", "initialise_dat",
    "declare_stencils", "bc_exchange", "ops_partition", "initialisation", "bc_calls",
    "timer_start", "timeloop", "time_start_calls", "innerloop", "time_calls", "bc_calls",
    "end_inner_loop", "time_end_calls", "io_time", "end_time_loop", "timer_end",
    "print_timings", "io_calls", "ops_exit", "main_end">>

\* the holes of OPS_template in the order of the text (lines 187-217)
OPS_template ==
  <<"header", "main_start", "initialise_constants", "ops_init", "declare_ops_constants",
    "define_block", "initialise_block", "define_dat", "initialise_dat",
    "declare_stencils", "bc_exchange", "ops_partition", "initialisation", "bc_calls",
    "timer_start", "timeloop", "time_start_calls", "innerloop", "time_calls", "bc_calls",
    "end_inner_loop", "time_end_calls", "io_time", "end_time_loop", "timer_end",
    "print_timings", "io_calls", "ops_exit", "main_end">>

\* Template.safe_substitute: every hole replaced by its value in the code
\* dictionary, a hole without a value left in the text as '$name'
safe_substitute(skeleton, code_dictionary) ==
  [n \in DOMAIN skeleton |->
     IF skeleton[n] \in DOMAIN code_dictionary
     THEN [hole |-> skeleton[n], placeholder |-> "", code |-> code_dictionary[skeleton[n]]]
     ELSE [hole |-> skeleton[n], placeholder |-> "$" \o skeleton[n], code |-> <<>>]]

\* template, lines 319-320: safe_substitute, write_main_file
WriteMainFile ==
  /\ At("declare_ops_constants")
  /\ gen' = [gen EXCEPT !.pc = "write_main_file",
                        !.fs.main_file = TRUE,
                        !.fs.main_text = safe_substitute(OPS_template, gen.code)]
  /\ ret' = Call("write_main_file", 0, 0, "none")
  /\ UNCHANGED <<kvars, bvars, hvars, rvars, contributed>>

(***************************************************************************)
(* SpecGenerate: one construction of the emitter.  The simulations handed  *)
(* to it are a single-block simulation of four kernels with one self       *)
(* exchange and an end-of-run snapshot, varied in one respect at a time:   *)
(* the lengths of the collaborator lists, the shapes of the blocks, the    *)
(* kinds of the boundary instances, the save request, and the kernels of   *)
(* the four phases.                                                        *)
(***************************************************************************)
Computation(id, name, ins, outs, inouts, has_Idx, eqs, constants) ==
  [id |-> id, name |-> name, inputs |-> ins, outputs |-> outs, inputoutput |-> inouts,
   has_Idx |-> has_Idx, ranges |-> << <<0, 200>> >>, equations |-> eqs,
   constants |-> constants,
   iorder |-> CHOOSE o \in Orders(DOMAIN ins) : TRUE,
   oorder |-> CHOOSE o \in Orders(DOMAIN outs) : TRUE,
   ioorder |-> CHOOSE o \in Orders(DOMAIN inouts) : TRUE]

\* the access base[x0 + off] of an equation
At1(base, off) == Indexed(base, Access(<<off>>))

CompA ==
  Computation("A", "None", ("f" :> ListValue(<<Access(<<1>>)>>)),
              ("g" :> TupleValue(Access(<<0>>))), EmptyMap, FALSE,
              <<Eq(At1("g", 0), At1("f", 1))>>, {})

CompB ==
  Computation("B", "None", ("g" :> ListValue(<<Access(<<-1>>)>>)),
              ("f" :> TupleValue(Access(<<0>>))), EmptyMap, FALSE,
              <<Eq(At1("f", 0), At1("g", -1))>>, {})

CompC ==
  Computation("C", "None", ("f" :> TupleValue(Access(<<0>>))), EmptyMap,
              ("h" :> TupleValue(Access(<<0>>))), TRUE,
              <<Eq(At1("h", 0), At1("f", 0))>>, {})

CompD ==
  Computation("D", "user_kernel", ("dt" :> GlobalValue),
              ("g" :> TupleValue(Access(<<0>>))), EmptyMap, FALSE,
              <<Eq(At1("g", 0), Rational(3, 4))>>, {})

\* a kernel that reads f, g and the global dt, writes h and the global res
\* and uses the indexed constant a; its dicts are iterated in the given orders
CompE(iorder, oorder) ==
  [Computation("E", "None",
               ("f" :> ListValue(<<Access(<<1>>)>>)) @@ ("g" :> ListValue(<<Access(<<-1>>)>>))
                  @@ ("dt" :> GlobalValue),
               ("h" :> TupleValue(Access(<<0>>))) @@ ("res" :> GlobalValue), EmptyMap, FALSE,
               <<Eq(At1("h", 0), At1("f", 1)), Eq(At1("h", 0), At1("g", -1))>>, {"a"})
     EXCEPT !.iorder = iorder, !.oorder = oorder]

Repeat(x, n) == [i \in 1..n |-> x]

Temporal(comps, start, end) ==
  [computations |-> comps, start_computations |-> start, end_computations |-> end,
   nstages |-> 1, stage |-> "stage", coeffs |-> EmptyMap]

\* a scheme of three stages whose coefficients are the values of a
RungeKutta(comps, values) ==
  [Temporal(comps, <<>>, <<>>) EXCEPT !.nstages = 3, !.coeffs = ("a" :> values)]

\* simulation_parameters: the number of iterations and the time step
Parameters == ("niter" :> Scalar(Rational(10, 1))) @@ ("dt" :> Scalar(Rational(1, 4)))
                @@ ("res" :> Scalar(Rational(0, 1)))

\* a grid: its shape and the parameters it carries for the simulation
Grid(shape, data) == [shape |-> shape, grid_data_dictionary |-> data]

PlainGrid(shape) == Grid(shape, EmptyMap)

\* simulation parameters that leave the number of iterations to the grid
ParametersWithoutNiter == [name \in DOMAIN Parameters \ {"niter"} |-> Parameters[name]]

GridNiter == ("niter" :> Scalar(Rational(5, 1)))

\* the parameters a grid may carry
GridData ==
  {EmptyMap, GridNiter @@ ("dt" :> Scalar(Rational(1, 8))),
   ("niter" :> Scalar(Rational(7, 1)))}

Boundary(kinds) == [type |-> kinds, transfers |-> [i \in DOMAIN kinds |-> <<"f">>]]

FileIO(save_after, save_arrays) == [save_after |-> save_after, save_arrays |-> save_arrays]

Simulation(grid, spatial, temporal, boundary, initial, io) ==
  [grid |-> grid, spatial_discretisation |-> spatial, temporal_discretisation |-> temporal,
   boundary |-> boundary, initial_conditions |-> initial, IO |-> io,
   simulation_parameters |-> Parameters]

TheSpatial == [computations |-> <<CompA, CompB>>]

TheTemporal == Temporal(<<CompC>>, <<>>, <<>>)

TheBoundary == Boundary(<<"exchange_self">>)

TheInitial == [computations |-> <<CompD>>]

TheIO == FileIO(<<PyBool(TRUE)>>, <<"f", "g">>)

Lengths == 1..MaxBlocks

BoundaryKinds == {"exchange_self", "dirichlet"}

\* the values a scheme may hold for the constant a, which has two entries
ConstantValues ==
  {Values(<<Rational(1, 2)>>), Values(<<Rational(1, 2), Rational(1, 1)>>),
   Values(<<Rational(1, 2), Rational(1, 1), Rational(3, 2)>>)}

ParametersWithoutRes == [name \in DOMAIN Parameters \ {"res"} |-> Parameters[name]]

\* values for the indexed constants a (two entries) and b (one entry) and the
\* caller's parameters, such that the value of some constant cannot be written
UnwritableConstants ==
  LET two == Values(<<Rational(1, 2), Rational(1, 1)>>)
      three == Values(<<Rational(1, 2), Rational(1, 1), Rational(3, 2)>>)
      one == Values(<<Rational(1, 2)>>)
  IN {[a |-> three, b |-> one, params |-> ParametersWithoutRes],
      [a |-> three, b |-> Scalar(Rational(1, 2)), params |-> Parameters],
      [a |-> three, b |-> two, params |-> Parameters],
      [a |-> two, b |-> Scalar(Rational(3, 4)), params |-> Parameters]}

SaveRequests ==
  {<<>>, <<PyBool(TRUE)>>, <<PyBool(FALSE)>>, <<PyInt(1)>>, <<PyInt(2)>>,
   <<PyBool(TRUE), PyBool(TRUE)>>, <<PyBool(TRUE), PyInt(2)>>}

Simulations ==
  {Simulation(Repeat(PlainGrid(<<202>>), ng), Repeat(TheSpatial, ns), Repeat(TheTemporal, nt),
              Repeat(TheBoundary, nb), Repeat(TheInitial, ni), Repeat(TheIO, nio)) :
      ng \in Lengths, ns \in Lengths, nt \in Lengths, nb \in Lengths, ni \in Lengths,
      nio \in Lengths}
  \cup {Simulation(<<PlainGrid(<<202>>), PlainGrid(<<10, 10>>)>>, Repeat(TheSpatial, 2), Repeat(TheTemporal, 2),
                   Repeat(TheBoundary, 2), Repeat(TheInitial, 2), Repeat(TheIO, 2))}
  \cup {Simulation(<<PlainGrid(<<202>>)>>, <<TheSpatial>>, <<TheTemporal>>, <<Boundary(kinds)>>,
                   <<TheInitial>>, <<TheIO>>) :
          kinds \in UNION {[1..n -> BoundaryKinds] : n \in 0..2}}
  \cup {Simulation(<<PlainGrid(<<202>>)>>, <<TheSpatial>>, <<TheTemporal>>, <<TheBoundary>>,
                   <<TheInitial>>, <<FileIO(save_after, save_arrays)>>) :
          save_after \in SaveRequests, save_arrays \in {<<>>, <<"f">>, <<"f", "g">>}}
  \cup {Simulation(<<PlainGrid(<<202>>)>>, <<[computations |-> spatial]>>,
                   <<Temporal(temporal, start, end)>>, <<TheBoundary>>,
                   <<[computations |-> initial]>>, <<TheIO>>) :
          spatial \in {<<CompA, CompB>>, <<CompB, CompA>>, <<CompA>>, <<>>},
          temporal \in {<<CompC>>, <<CompC, CompA>>, <<>>},
          start \in {<<>>, <<CompD>>, <<CompD, CompB>>},
          end \in {<<>>, <<CompB, CompD>>},
          initial \in {<<CompD>>, <<CompA, CompD>>}}
  \cup {Simulation(<<PlainGrid(<<202>>)>>, <<[computations |-> <<CompE(iorder, oorder)>>]>>,
                   <<RungeKutta(<<CompC>>, values)>>, <<TheBoundary>>, <<TheInitial>>,
                   <<TheIO>>) :
          iorder \in Orders({"f", "g", "dt"}), oorder \in Orders({"h", "res"}),
          values \in ConstantValues}
  \cup {[Simulation(grid, Repeat(TheSpatial, Len(grid)), Repeat(TheTemporal, Len(grid)),
                    Repeat(TheBoundary, Len(grid)), Repeat(TheInitial, Len(grid)),
                    Repeat(TheIO, Len(grid)))
            EXCEPT !.simulation_parameters = params] :
          grid \in {<<Grid(<<202>>, data)>> : data \in GridData}
                     \cup {<<Grid(<<202>>, GridNiter), Grid(<<202>>, data)>> : data \in GridData},
          params \in {Parameters, ParametersWithoutNiter}}
  \cup {[Simulation(<<PlainGrid(<<202>>)>>,
                    <<[computations |-> <<[CompE(<<"f", "g", "dt">>, <<"h", "res">>)
                                             EXCEPT !.constants = {"a", "b"}]>>]>>,
                    <<RungeKutta(<<CompC>>, c.a)>>, <<TheBoundary>>, <<TheInitial>>, <<TheIO>>)
            EXCEPT !.simulation_parameters = ("b" :> c.b) @@ c.params] : c \in UnwritableConstants}
  \cup {[Simulation(<<PlainGrid(<<202>>)>>, <<[computations |-> <<CompE(iorder, oorder)>>]>>,
                    <<RungeKutta(<<CompC>>, Values(<<Rational(1, 2), Rational(1, 1)>>))>>,
                    <<TheBoundary>>, <<TheInitial>>, <<TheIO>>)
            EXCEPT !.simulation_parameters = ("a" :> Values(<<Rational(7, 1)>>)) @@ Parameters] :
          iorder \in {<<"f", "g", "dt">>}, oorder \in {<<"h", "res">>}}

NextGenerate ==
  \/ \E sim \in Simulations : Construct(sim)
  \/ InitialiseOpsParameters
  \/ MainFrame
  \/ DefineBlock
  \/ InitialiseBlock
  \/ InnerLoop
  \/ WriteComputationalRoutines
  \/ TimeCalls
  \/ TimeStartCalls
  \/ TimeEndCalls
  \/ InitialisationCalls
  \/ UpdateBoundaryConditions
  \/ GetIO
  \/ /\ At("get_io")
     /\ \E aorder \in Orders(gen.grid_based_arrays),
           sorder \in Orders(DOMAIN stencil_dictionary),
           corder \in Orders(gen.constants) : Declarations(aorder, sorder, corder)
  \/ InitializeConstants
  \/ WriteMainFile

SpecGenerate == InitKernelSpec /\ [][NextGenerate]_vars

Constructing == gen.pc # "none"

(***************************************************************************)
(* C19.  When the number of blocks of some collaborator differs from the   *)
(* grid's, the construction ends in check_consistency with AlgorithmError: *)
(* the OPS parameters are never initialised, the code directory is never   *)
(* created and no file is ever written.                                    *)
(***************************************************************************)
BlockCountsDisagree(sim) ==
  \E name \in Range(Collaborators) : Len(sim[name]) # Len(sim.grid)

C19_InconsistentBlocksAreFatal ==
  (Constructing /\ BlockCountsDisagree(gen.sim)) =>
      /\ gen.pc = "check_consistency" /\ gen.exc = "AlgorithmError"
      /\ ~gen.params /\ gen.nblocks = 0 /\ gen.kernel_name_number = <<>>
      /\ gen.fs = NoFiles
      /\ gen.code = EmptyMap

\* the IO list alone has a different length: every check but the last passed
C19_Witness ==
  /\ Constructing
  /\ gen.exc = "AlgorithmError"
  /\ Len(gen.sim.IO) # Len(gen.sim.grid)
  /\ \A i \in 1..4 : Len(gen.sim[Collaborators[i]]) = Len(gen.sim.grid)
  /\ gen.stored = {"grid"} \cup Range(Collaborators)

(***************************************************************************)
(* C12.  When update_boundary_conditions meets a boundary instance whose   *)
(* kind is not 'exchange_self' and raises NotImplementedError, no code has *)
(* been emitted: neither a kernel-definition file nor the main program     *)
(* file has been written.                                                  *)
(***************************************************************************)
C12_BoundaryFailsBeforeAnyCode ==
  (Constructing /\ ret.op = "update_boundary_conditions"
     /\ \E b \in DOMAIN gen.sim.boundary :
           \E i \in DOMAIN gen.sim.boundary[b].type :
              gen.sim.boundary[b].type[i] # "exchange_self") =>
      /\ gen.exc = "NotImplementedError"
      /\ gen.fs.kernel_files = EmptyMap
      /\ ~gen.fs.main_file

(***************************************************************************)
(* C13.  get_io emits the snapshot calls exactly when the save_after of    *)
(* every block equals [True]; for any other save_after it raises           *)
(* NotImplementedError and the main program file is never written.  The    *)
(* calls emitted for a block are one ops_fetch_block_hdf5_file call        *)
(* followed by one ops_fetch_dat_hdf5_file call per saved array, in the    *)
(* order of save_arrays, all on the file "state.h5".                       *)
(***************************************************************************)
\* Python's a == b on lists of these values
py_list_eq(a, b) == Len(a) = Len(b) /\ \A i \in DOMAIN a : py_eq(a[i], b[i])

EndOfRunOnly(IO) == \A b \in DOMAIN IO : py_list_eq(IO[b].save_after, <<PyBool(TRUE)>>)

PastGetIO ==
  gen.pc \in {"get_io", "declare_stencils", "declare_ops_constants", "write_main_file"}

C13_SnapshotOnlyAtEnd ==
  /\ (Constructing /\ ret.op = "get_io") =>
        /\ ret.exc = (IF EndOfRunOnly(ret.arg) THEN "none" ELSE "NotImplementedError")
        /\ ret.exc = "none" =>
              LET calls == gen.code["io_calls"]
                  arrays == ret.arg[1].save_arrays
              IN /\ Len(calls) = 1 + Len(arrays)
                 /\ calls[1].call = "ops_fetch_block_hdf5_file"
                 /\ \A i \in DOMAIN arrays :
                       /\ calls[i + 1].call = "ops_fetch_dat_hdf5_file"
                       /\ calls[i + 1].of = arrays[i]
                 /\ \A i \in DOMAIN calls : calls[i].file = calls[1].file
        /\ ret.exc # "none" => "io_calls" \notin DOMAIN gen.code
  /\ (Constructing /\ ~EndOfRunOnly(gen.sim.IO)) => ~PastGetIO /\ ~gen.fs.main_file

\* one request was refused and another accepted with two arrays to save
C13_Witness ==
  /\ Constructing /\ ret.op = "get_io" /\ ret.exc = "none"
  /\ Len(gen.code["io_calls"]) = 3
  /\ gen.sim.IO[1].save_after = <<PyBool(TRUE)>>

(***************************************************************************)
(* C14.  With more than one block, each of define_block, initialise_block, *)
(* define_dat, initialise_dat and declare_stencils raises                  *)
(* NotImplementedError when template reaches it, and no main program file  *)
(* is written.                                                             *)
(***************************************************************************)
C14_MultiblockDeclarationsRaise ==
  (Constructing /\ gen.multiblock
     /\ ret.op \in {"define_block", "initialise_block", "declare_stencils"}) =>
      /\ ret.exc = "NotImplementedError"
      /\ "define_block" \notin DOMAIN gen.code
      /\ ~gen.fs.main_file

(***************************************************************************)
(* C17.  The kernel calls emitted for a phase are the calls of the kernels *)
(* of that phase's list, one call per entry, in the order of the list; the *)
(* per-stage section holds the calls of the spatial discretisation         *)
(* followed by those of the temporal discretisation.                       *)
(***************************************************************************)
\* the names of the kernels of block 1 in a list, and of the calls of a section
KernelNames(comps) == [i \in DOMAIN comps |-> gen.names[comps[i].id]]

CallNames(section) == [i \in DOMAIN gen.code[section] |-> gen.code[section][i].name]

PhaseOrderKept(section, comps) ==
  (section \in DOMAIN gen.code) =>
      /\ CallNames(section) = KernelNames(comps)
      /\ \A i, j \in DOMAIN gen.code[section] :
            i < j => gen.code[section][i].iterrange < gen.code[section][j].iterrange

C17_CallsFollowAppendOrder ==
  Constructing =>
    /\ PhaseOrderKept("time_calls",
                      gen.sim.spatial_discretisation[1].computations
                        \o gen.sim.temporal_discretisation[1].computations)
    /\ PhaseOrderKept("time_start_calls", gen.sim.temporal_discretisation[1].start_computations)
    /\ PhaseOrderKept("time_end_calls", gen.sim.temporal_discretisation[1].end_computations)
    /\ PhaseOrderKept("initialisation", gen.sim.initial_conditions[1].computations)
    /\ \A id1, id2 \in DOMAIN gen.names :
          (gen.pc # "check_consistency" /\ gen.pc # "initialise_ops_parameters"
             /\ gen.pc # "define_block" /\ gen.pc # "initialise_block"
             /\ gen.names[id1] = gen.names[id2]) => id1 = id2

\* every phase has emitted at least two calls, the per-stage section four
C17_Witness ==
  /\ Constructing /\ gen.pc = "initialisation"
  /\ Len(gen.code["time_calls"]) = 4
  /\ gen.sim.spatial_discretisation[1].computations = <<CompB, CompA>>
  /\ Len(gen.code["time_start_calls"]) = 2
  /\ Len(gen.code["time_end_calls"]) = 2
  /\ Len(gen.code["initialisation"]) = 2

(***************************************************************************)
(* SpecPrinter: a kernel is given equations over f and g with the numbers  *)
(* 3/4, 1/2, 4 and 1 in them and is asked for its rational constants;      *)
(* ccode prints numbers, accesses to f and g on a block of two dimensions, *)
(* and equalities, with a tag table, with a table that gives a field no    *)
(* tag, with a table that lacks a field, and with no table.                *)
(***************************************************************************)
Numbers == {Rational(p, q) : p \in {-3, 1, 2, 3, 4, 6}, q \in {1, 2, 4, 8}}

PrinterEqualities ==
  {[lhs |-> {<<"g", <<0>> >>}, rhs |-> {<<"f", <<1>> >>},
    consts |-> {}, idx |-> FALSE, rationals |-> rs] :
      rs \in {{Rational(1, 1)},
              {Rational(3, 4), Rational(4, 1), Rational(1, 1)},
              {Rational(1, 2), Rational(1, 1)},
              {Rational(2, 4), Rational(6, 8), Rational(0, 1)}}}

Accesses ==
  {Indexed(base, <<Idx(0, o0), Idx(1, o1)>>) : base \in KFields, o0 \in {-1, 0}, o1 \in {0, 2}}
    \cup {Indexed("f", <<[symbols |-> {IndexSymbol(0), "n"}, off |-> 1], Idx(1, 0)>>)}

PrintedExpressions ==
  Numbers \cup Accesses
    \cup {Eq(l, r) : l \in {Indexed("g", <<Idx(0, 0), Idx(1, 0)>>)},
                     r \in Accesses \cup {Rational(3, 4), Rational(4, 1)}}

Tables ==
  {NoTable,
   Table(("f" :> "OPS_ACC0") @@ ("g" :> "OPS_ACC1")),
   Table(("f" :> "None") @@ ("g" :> "OPS_ACC0")),
   Table(("f" :> "OPS_ACC0"))}

NextPrinter ==
  \/ \E e \in PrinterEqualities : AddEquation(1, EqualityArg(e))
  \/ RationalConstants(1)
  \/ \E expr \in PrintedExpressions : \E Indexed_accs \in Tables : Ccode(expr, Indexed_accs)

SpecPrinter == InitKernelSpec /\ [][NextPrinter]_vars

(***************************************************************************)
(* C15.  A number that is not an integer is printed as the division of its *)
(* numerator and denominator written as floating-point literals, 3/4 as    *)
(* "3.0/4.0"; an integer is printed as the integer, 4 as "4".              *)
(* Kernel.Rational_constants is the set of the numbers of the equations    *)
(* that are not integers.                                                  *)
(***************************************************************************)
C15_RationalLiterals ==
  /\ (ret.op = "ccode" /\ ret.arg.expr.kind = "Rational") =>
        LET n == ret.arg.expr
        IN /\ printed.exc = "none"
           /\ n.p % n.q # 0 =>
                 printed.text = ToString(n.p) \o ".0/" \o ToString(n.q) \o ".0"
           /\ n.p % n.q = 0 => printed.text = ToString(n.p \div n.q)
           /\ n = Rational(3, 4) => printed.text = "3.0/4.0"
           /\ n = Rational(4, 1) => printed.text = "4"
  /\ ret.op = "Rational_constants" =>
        /\ \A rc \in ret.arg : rc.p % rc.q # 0
        /\ \A i \in DOMAIN equations[ret.k] :
              \A rc \in equations[ret.k][i].rationals : rc.p % rc.q # 0 => rc \in ret.arg
        /\ \A rc \in ret.arg :
              \E i \in DOMAIN equations[ret.k] : rc \in equations[ret.k][i].rationals

\* 3/4 has been printed, for a kernel that holds 3/4, 4 and 1 and whose
\* rational constants are 3/4 alone
C15_Witness ==
  /\ ret.op = "ccode" /\ ret.arg.expr = Rational(6, 8)
  /\ printed.text = "3.0/4.0"
  /\ \E i \in DOMAIN equations[1] : Rational(4, 1) \in equations[1][i].rationals
  /\ Rational_constants(equations[1]) = {Rational(3, 4)}

(***************************************************************************)
(* C16.  ccode prints an indexed access as the name of the field followed  *)
(* by its offsets, every symbol of an index replaced by 0, in the order of *)
(* the indices and joined by commas: "name[TAG(o1,...,on)]" when the field *)
(* has a tag and "name[o1,...,on]" when it has none; it prints an equality *)
(* as "<lhs> = <rhs>".  It does so for every field of the expression,      *)
(* also when no tag table was handed to it.                                *)
(***************************************************************************)
TagOf(base, Indexed_accs) ==
  IF Indexed_accs.given /\ base \in DOMAIN Indexed_accs.accs /\ Indexed_accs.accs[base] # "None"
  THEN Indexed_accs.accs[base] ELSE "None"

ExpectedAccess(expr, Indexed_accs) ==
  LET offs == ToString(expr.indices[1].off) \o "," \o ToString(expr.indices[2].off)
  IN IF TagOf(expr.base, Indexed_accs) # "None"
     THEN expr.base \o "[" \o TagOf(expr.base, Indexed_accs) \o "(" \o offs \o ")]"
     ELSE expr.base \o "[" \o offs \o "]"

\* every field of the expression has an entry in the table, if there is a table
Covers(Indexed_accs, bases) == Indexed_accs.given => bases \subseteq DOMAIN Indexed_accs.accs

C16_IndexedAccessText ==
  ret.op = "ccode" =>
     LET expr == ret.arg.expr
         accs == ret.arg.Indexed_accs
     IN /\ (expr.kind = "Indexed" /\ Covers(accs, {expr.base})) =>
              printed = [text |-> ExpectedAccess(expr, accs), exc |-> "none"]
        /\ (expr.kind = "Eq" /\ expr.rhs.kind = "Indexed"
              /\ Covers(accs, {expr.lhs.base, expr.rhs.base})) =>
              printed = [text |-> ExpectedAccess(expr.lhs, accs) \o " = "
                                    \o ExpectedAccess(expr.rhs, accs),
                         exc |-> "none"]

(***************************************************************************)
(* C21.  The list relative_stencil returns for a field holds the offset    *)
(* tuples in lexicographic order, the offset in dimension 0 being the most *)
(* significant, then dimension 1: in two dimensions (0,1) comes before     *)
(* (1,0).                                                                  *)
(***************************************************************************)
\* the offset tuples of a flattened stencil
Tuples(flat, ndim) ==
  [i \in 1..(Len(flat) \div ndim) |-> [d \in 1..ndim |-> flat[(i - 1) * ndim + d]]]

Lexicographic(tuples) ==
  \A i, j \in DOMAIN tuples : i < j => ~list_less(tuples[j], tuples[i])

C21_LexicographicOrder ==
  (ret.op = "get_stencils" /\ ret.exc = "none") =>
     \A key \in DOMAIN stencils :
        Lexicographic(Tuples(relative_stencil(FieldValue(ret.arg, key)), blk.ndim))

(***************************************************************************)
(* C22.  The list relative_stencil returns for a field holds every offset  *)
(* tuple once, also when the references listed for the field hold two      *)
(* accesses with the same relative offset: the stencil, and with it the    *)
(* registry key and the number of points declared, is that of the list     *)
(* without the repeated access.                                            *)
(***************************************************************************)
NoRepeats(tuples) == \A i, j \in DOMAIN tuples : tuples[i] = tuples[j] => i = j

C22_StencilDeduplicated ==
  (ret.op = "get_stencils" /\ ret.exc = "none") =>
     \A key \in DOMAIN stencils :
        LET flat == relative_stencil(FieldValue(ret.arg, key))
        IN /\ NoRepeats(Tuples(flat, blk.ndim))
           /\ Len(flat) \div blk.ndim = Cardinality(Range(Offsets(FieldValue(ret.arg, key))))
           /\ lsit_to_string(flat) \in DOMAIN stencil_dictionary

(***************************************************************************)
(* SpecBodies: a kernel is populated with add_equation and is then handed  *)
(* to the emitter as the only spatial computation of a simulation.         *)
(***************************************************************************)
BodyEqualities ==
  {Eq(At1("g", 0), At1("f", 1)), Eq(At1("g", 0), At1("f", -1)), Eq(At1("g", 0), Rational(1, 2))}

MaxBodyEqs == 3    \* equations the kernel handed to the emitter may hold

BodyArgs ==
  {EqualityArg(e) : e \in BodyEqualities}
  \cup {ListArg(<<>>), OtherArg(TRUE), OtherArg(FALSE)}
  \cup {ListArg(<<Item(e1), Item(e2)>>) : e1, e2 \in BodyEqualities}
  \cup {ListArg(<<Item(e1), NestedItem(<<e2>>)>>) : e1, e2 \in BodyEqualities}
  \cup {ListArg(<<NestedItem(<<e1, e2>>), Item(e3)>>) : e1, e2, e3 \in BodyEqualities}

\* the kernel with the equations eqs as the emitter sees it
BodyKernel(eqs) ==
  Computation("K", "None", ("f" :> ListValue(<<Access(<<-1>>), Access(<<1>>)>>)),
              ("g" :> TupleValue(Access(<<0>>))), EmptyMap, FALSE, eqs, {})

BodySimulation(eqs) ==
  Simulation(<<PlainGrid(<<202>>)>>, <<[computations |-> <<BodyKernel(eqs)>>]>>, <<TheTemporal>>,
             <<TheBoundary>>, <<TheInitial>>, <<TheIO>>)

NextBodies ==
  \/ \E arg \in BodyArgs : gen.pc = "none" /\ AddEquationWithin(1, arg, MaxBodyEqs)
  \/ Construct(BodySimulation(equations[1]))
  \/ InitialiseOpsParameters
  \/ MainFrame
  \/ DefineBlock
  \/ InitialiseBlock
  \/ InnerLoop
  \/ WriteComputationalRoutines
  \/ TimeCalls
  \/ TimeStartCalls
  \/ TimeEndCalls
  \/ InitialisationCalls
  \/ UpdateBoundaryConditions
  \/ GetIO
  \/ /\ At("get_io")
     /\ \E aorder \in Orders(gen.grid_based_arrays),
           sorder \in Orders(DOMAIN stencil_dictionary),
           corder \in Orders(gen.constants) : Declarations(aorder, sorder, corder)
  \/ InitializeConstants
  \/ WriteMainFile

SpecBodies == InitKernelSpec /\ [][NextBodies]_vars

(***************************************************************************)
(* C23.  Every add_equation call, whatever its argument and whatever the   *)
(* kernel holds already, leaves the kernel's equations as they were        *)
(* followed by what that argument contributes: the equality itself, the    *)
(* equalities of a list in list order (those of a nested list in place),   *)
(* nothing for any other argument.  When the kernel definitions            *)
(* have been written, the body of the kernel holds one statement per       *)
(* equation, statement i being the text of equation i followed by ';'.     *)
(***************************************************************************)
\* the equalities of the items of a list argument, collected from the right
RECURSIVE ItemEqualities(_)
ItemEqualities(items) ==
  IF items = <<>> THEN <<>>
  ELSE ItemEqualities(SubSeq(items, 1, Len(items) - 1)) \o items[Len(items)].eqs

Accepted(arg) == IF arg.kind = "other" THEN <<>> ELSE ItemEqualities(arg.items)

\* the kernels written to the file of block b for the computation id
DefinitionsOf(b, id) ==
  {n \in DOMAIN gen.fs.kernel_files[b] : gen.fs.kernel_files[b][n].id = id}

BodyTable == Table(("f" :> "OPS_ACC0") @@ ("g" :> "OPS_ACC1"))

BodyFollowsEquations ==
  (Constructing /\ gen.fs.kernel_files # EmptyMap) =>
     \A n \in DefinitionsOf(1, "K") :
        LET body == gen.fs.kernel_files[1][n].body
        IN /\ Len(body) = Len(equations[1])
           /\ \A i \in DOMAIN body : body[i] = ccode(equations[1][i], BodyTable).text \o ";"

\* a step that is the call add_equation(arg) appends what arg contributes
AddEquationAppends ==
  \A arg \in BodyArgs :
     AddEquationWithin(1, arg, MaxBodyEqs) => equations'[1] = equations[1] \o Accepted(arg)

C23_EquationOrderIsStatementOrder == []BodyFollowsEquations /\ [][AddEquationAppends]_vars

\* the kernel was given g = 1/2 and then the list of g = f[+1] and
\* g = f[-1]; its body has the three statements in that order
C23_Witness ==
  /\ gen.pc = "write_computational_routines"
  /\ equations[1] = <<Eq(At1("g", 0), Rational(1, 2)), Eq(At1("g", 0), At1("f", 1)),
                      Eq(At1("g", 0), At1("f", -1))>>
  /\ DefinitionsOf(1, "K") = {1}
  /\ gen.fs.kernel_files[1][1].body
       = <<"g[OPS_ACC1(0)] = 1.0/2.0;", "g[OPS_ACC1(0)] = f[OPS_ACC0(1)];",
           "g[OPS_ACC1(0)] = f[OPS_ACC0(-1)];">>

(***************************************************************************)
(* C24.  In every kernel definition written, the tags get_OPS_ACC_number   *)
(* gave the fields of the computation are: for the grid fields, in the     *)
(* order in which they are met in the inputs, then the outputs, then the   *)
(* input-output fields, 'OPS_ACC0', 'OPS_ACC1', ... without a gap, so that *)
(* no two grid fields share a tag; for every other field, None.            *)
(***************************************************************************)
\* the computation object with the given id among those of block b
ComputationOf(b, id) == CHOOSE c \in Range(block_comps(gen.sim, b)) : c.id = id

\* the grid fields of a computation in the order they are met
Encountered(c) == select_keys(c.iorder \o c.oorder \o c.ioorder, TRUE)

TagsInEncounterOrder(c, accs) ==
  /\ DOMAIN accs = DOMAIN c.inputs \cup DOMAIN c.outputs \cup DOMAIN c.inputoutput
  /\ \A n \in DOMAIN Encountered(c) : accs[Encountered(c)[n]] = "OPS_ACC" \o ToString(n - 1)
  /\ \A a, b \in DOMAIN accs \cap GridFields : accs[a] = accs[b] => a = b
  /\ \A a \in DOMAIN accs \ GridFields : accs[a] = "None"

C24_AccessNumbering ==
  (Constructing /\ gen.fs.kernel_files # EmptyMap) =>
     \A b \in DOMAIN gen.fs.kernel_files :
        \A n \in DOMAIN gen.fs.kernel_files[b] :
           TagsInEncounterOrder(ComputationOf(b, gen.fs.kernel_files[b][n].id),
                                gen.fs.kernel_files[b][n].ops_accs)

\* a kernel whose inputs are iterated g, dt, f and whose outputs res, h has
\* been defined with g, f, h numbered 0, 1, 2 and the globals untagged
C24_Witness ==
  /\ gen.pc = "write_computational_routines"
  /\ \E n \in DOMAIN gen.fs.kernel_files[1] :
        /\ ComputationOf(1, gen.fs.kernel_files[1][n].id).iorder = <<"g", "dt", "f">>
        /\ ComputationOf(1, gen.fs.kernel_files[1][n].id).oorder = <<"res", "h">>
        /\ gen.fs.kernel_files[1][n].ops_accs
             = ("g" :> "OPS_ACC0") @@ ("f" :> "OPS_ACC1") @@ ("h" :> "OPS_ACC2")
                 @@ ("dt" :> "None") @@ ("res" :> "None")

(***************************************************************************)
(* C28.  The dicts of the computations being pairwise disjoint: in every   *)
(* kernel definition written, the grid field tagged OPS_ACCn is parameter  *)
(* n of the function header, counted from 0, and in every call emitted for *)
(* that kernel it is the field of argument n, an ops_arg_dat; in the       *)
(* header and in the call all the grid fields come before every global     *)
(* and before the grid index.                                              *)
(***************************************************************************)
DisjointDicts(c) ==
  /\ DOMAIN c.inputs \cap DOMAIN c.outputs = {}
  /\ DOMAIN c.inputs \cap DOMAIN c.inputoutput = {}
  /\ DOMAIN c.outputs \cap DOMAIN c.inputoutput = {}

\* the header parameter of the field key of the computation c
ParameterOf(c, key) ==
  ops_header(IF key \in DOMAIN c.inputs THEN "inputs"
             ELSE IF key \in DOMAIN c.outputs THEN "outputs" ELSE "inputoutput",
             Precision, key)

\* the position the tag OPS_ACCn stands for, counted from 1
Position(tag) == CHOOSE n \in 1..Cardinality(GridFields) : tag = "OPS_ACC" \o ToString(n - 1)

\* the calls emitted so far for the kernel called name
CallsOf(name) ==
  UNION {{gen.code[section][i] : i \in {j \in DOMAIN gen.code[section] :
                                            gen.code[section][j].name = name}} :
         section \in DOMAIN gen.code
                       \cap {"time_calls", "time_start_calls", "time_end_calls", "initialisation"}}

HeaderAndCallAgree(c, d) ==
  LET grid == (DOMAIN c.inputs \cup DOMAIN c.outputs \cup DOMAIN c.inputoutput) \cap GridFields
  IN /\ \A key \in grid :
           /\ d.params[Position(d.ops_accs[key])] = ParameterOf(c, key)
           /\ \A call \in CallsOf(d.name) :
                 /\ call.args[Position(d.ops_accs[key])].kind = "ops_arg_dat"
                 /\ call.args[Position(d.ops_accs[key])].field = key
     /\ \A k \in DOMAIN d.params :
           k > Cardinality(grid) => d.params[k] \notin {ParameterOf(c, key) : key \in grid}
     /\ \A call \in CallsOf(d.name) :
           \A k \in DOMAIN call.args : k > Cardinality(grid) => call.args[k].kind # "ops_arg_dat"

C28_TagIsHeaderAndCallPosition ==
  (Constructing /\ gen.fs.kernel_files # EmptyMap) =>
     \A b \in DOMAIN gen.fs.kernel_files :
        \A n \in DOMAIN gen.fs.kernel_files[b] :
           DisjointDicts(ComputationOf(b, gen.fs.kernel_files[b][n].id)) =>
              HeaderAndCallAgree(ComputationOf(b, gen.fs.kernel_files[b][n].id),
                                 gen.fs.kernel_files[b][n])

\* the kernel whose inputs are iterated g, dt, f and whose outputs res, h
\* has been defined and called: g, f, h are parameters and arguments 0, 1, 2
C28_Witness ==
  /\ gen.pc = "time_calls"
  /\ \E n \in DOMAIN gen.fs.kernel_files[1] :
        LET d == gen.fs.kernel_files[1][n]
        IN /\ d.id = "E"
           /\ d.ops_accs["f"] = "OPS_ACC1"
           /\ d.params = <<"const double *g", "const double *f", "double *h",
                           "const double *dt", "double *res">>
           /\ \E call \in CallsOf(d.name) :
                 /\ Len(call.args) = 5
                 /\ call.args[1].field = "g" /\ call.args[2].field = "f"
                 /\ call.args[3].field = "h" /\ call.args[4].kind = "ops_arg_gbl"

(***************************************************************************)
(* C25.  During a construction the iteration-range counter, the halo       *)
(* exchange counter and the kernel-name counter of each block never        *)
(* decrease.  While nothing has been raised, the kernel calls emitted so   *)
(* far carry the iteration ranges 0, 1, 2, ... in the order they were      *)
(* emitted and the counter is their number; the halo groups declared are   *)
(* halo_exchange0, halo_exchange1, ... in that order and the counter is    *)
(* their number; and the kernel-name counter of a block is the number of   *)
(* kernels defined for it.  So no two calls share an iteration range and   *)
(* no two halo groups a name.                                              *)
(***************************************************************************)
SectionOf(section) == IF section \in DOMAIN gen.code THEN gen.code[section] ELSE <<>>

\* the kernel calls in the order template had them emitted
EmittedCalls ==
  SectionOf("time_calls") \o SectionOf("time_start_calls") \o SectionOf("time_end_calls")
    \o SectionOf("initialisation")

CountersNumberWhatWasEmitted ==
  (Constructing /\ gen.exc = "none") =>
     /\ iteration_range_index = Len(EmittedCalls)
     /\ \A i \in DOMAIN EmittedCalls : EmittedCalls[i].iterrange = i - 1
     /\ \A i, j \in DOMAIN EmittedCalls :
           EmittedCalls[i].iterrange = EmittedCalls[j].iterrange => i = j
     /\ gen.halo_exchange_number = Len(SectionOf("bc_exchange"))
     /\ \A i \in DOMAIN SectionOf("bc_exchange") :
           SectionOf("bc_exchange")[i].group = "halo_exchange" \o ToString(i - 1)
     /\ \A i, j \in DOMAIN SectionOf("bc_exchange") :
           SectionOf("bc_exchange")[i].group = SectionOf("bc_exchange")[j].group => i = j
     /\ \A b \in DOMAIN gen.fs.kernel_files :
           gen.kernel_name_number[b] = Len(gen.fs.kernel_files[b])

CountersOnlyIncrease ==
  Constructing =>
     /\ iteration_range_index' >= iteration_range_index
     /\ gen'.halo_exchange_number >= gen.halo_exchange_number
     /\ \A b \in DOMAIN gen.kernel_name_number :
           gen'.kernel_name_number[b] >= gen.kernel_name_number[b]

C25_CountersAreMonotonic == []CountersNumberWhatWasEmitted /\ [][CountersOnlyIncrease]_vars

\* a pass has defined four kernels, emitted four calls and declared two halo
\* groups
C25_Witness ==
  /\ gen.pc = "write_main_file"
  /\ iteration_range_index = 4
  /\ Len(EmittedCalls) = 4
  /\ EmittedCalls[4].iterrange = 3
  /\ gen.kernel_name_number = <<4>>
  /\ gen.halo_exchange_number = 2
  /\ SectionOf("bc_exchange")[2].group = "halo_exchange1"

(***************************************************************************)
(* C26.  The main program is written once, by one substitution into the    *)
(* skeleton: when it is written every hole of the skeleton holds the       *)
(* value the code dictionary has for it and none stays as '$name'; before  *)
(* that the file has no text and afterwards the text does not change.      *)
(* The holes computed from what the emitter has collected (define_dat,     *)
(* initialise_dat, header, declare_stencils, initialise_constants,         *)
(* declare_ops_constants) get their value only when the kernel files are   *)
(* written and the calls of all four phases are emitted, and from then on  *)
(* no kernel is defined or called and nothing is added to the collected    *)
(* arrays, constants and stencils.                                         *)
(***************************************************************************)
CollectedHoles ==
  {"define_dat", "initialise_dat", "header", "declare_stencils", "initialise_constants",
   "declare_ops_constants"}

CallHoles == {"time_calls", "time_start_calls", "time_end_calls", "initialisation"}

EveryHoleSubstituted ==
  Constructing =>
     /\ gen.fs.main_file =>
           /\ Len(gen.fs.main_text) = Len(OPS_template)
           /\ \A n \in DOMAIN gen.fs.main_text :
                 /\ gen.fs.main_text[n].hole = OPS_template[n]
                 /\ gen.fs.main_text[n].placeholder = ""
                 /\ OPS_template[n] \in DOMAIN gen.code
                 /\ gen.fs.main_text[n].code = gen.code[OPS_template[n]]
     /\ ~gen.fs.main_file => gen.fs.main_text = <<>>
     /\ CollectedHoles \cap DOMAIN gen.code # {} =>
           /\ gen.fs.kernel_files # EmptyMap
           /\ CallHoles \subseteq DOMAIN gen.code

CollectedStateIsFinal ==
  (Constructing /\ CollectedHoles \cap DOMAIN gen.code # {}) =>
     /\ gen'.fs.kernel_files = gen.fs.kernel_files
     /\ gen'.kernel_name_number = gen.kernel_name_number
     /\ iteration_range_index' = iteration_range_index
     /\ \A section \in CallHoles : gen'.code[section] = gen.code[section]
     /\ gen'.grid_based_arrays = gen.grid_based_arrays
     /\ gen'.constants = gen.constants
     /\ stencil_dictionary' = stencil_dictionary
     /\ gen.fs.main_file => gen'.fs.main_text = gen.fs.main_text

C26_SingleSubstitutionPass == []EveryHoleSubstituted /\ [][CollectedStateIsFinal]_vars

\* the main program has been written for a scheme with stages: the header
\* hole holds the declarations of the collected constants, the inner loop is
\* open, and the time_calls hole holds the calls
C26_Witness ==
  /\ gen.pc = "write_main_file" /\ gen.fs.main_file
  /\ gen.fs.main_text[1].hole = "header"
  /\ \E i \in DOMAIN gen.fs.main_text[1].code : gen.fs.main_text[1].code[i] = "double a[2];"
  /\ gen.fs.main_text[18].hole = "innerloop"
  /\ gen.fs.main_text[18].code = <<"for (int stage=0; stage<3; stage++){">>
  /\ gen.fs.main_text[19].hole = "time_calls"
  /\ Len(gen.fs.main_text[19].code) = 2
  /\ \A n \in DOMAIN gen.fs.main_text : gen.fs.main_text[n].placeholder = ""

(***************************************************************************)
(* C27 as stated.  When a collected indexed constant has a list of values  *)
(* whose length is not the constant's number of entries,                   *)
(* initialize_constants ends with a ValueError whose message names the     *)
(* constant, the initialise_constants hole gets no value (no line for the  *)
(* constant is produced) and the main program file is never written.       *)
(* initialize_constants raises at the first constant, in the iteration     *)
(* order of self.constants, whose value it cannot write: when a constant   *)
(* without a value comes before the mismatched one it ends with KeyError.  *)
(***************************************************************************)
\* the collected indexed constants whose value list has the wrong length
WrongLength ==
  {con \in gen.constants \cap DOMAIN gen.simulation_parameters :
      /\ is_IndexedBase(con)
      /\ gen.simulation_parameters[con].islist
      /\ Len(gen.simulation_parameters[con].val) # ConstantRanges[con]}

MismatchMessage(con) ==
  "The indexed constant " \o con \o " should have only " \o ToString(ConstantRanges[con])
     \o " values"

C27_ConstantLengthMismatchIsFatal ==
  (Constructing /\ WrongLength # {}) =>
     /\ ~gen.fs.main_file
     /\ "initialise_constants" \notin DOMAIN gen.code
     /\ gen.pc # "declare_ops_constants" /\ gen.pc # "write_main_file"
     /\ ret.op = "initialize_constants" =>
           /\ ret.exc = "ValueError" /\ gen.exc = "ValueError"
           /\ ret.arg \in {MismatchMessage(con) : con \in WrongLength}

\* a collected constant whose value initialize_constants cannot write: it has
\* no value, or it is indexed and its value is a number or a list of another
\* length than its number of entries
Unwritable(con) ==
  \/ con \notin DOMAIN gen.simulation_parameters
  \/ /\ is_IndexedBase(con)
     /\ \/ ~gen.simulation_parameters[con].islist
        \/ Len(gen.simulation_parameters[con].val) # ConstantRanges[con]

\* the first such constant in the iteration order of self.constants
FirstUnwritable ==
  gen.constants_order[Min({i \in DOMAIN gen.constants_order :
                             Unwritable(gen.constants_order[i])})]

(***************************************************************************)
(* C27, amended.  When a collected indexed constant has a list of values   *)
(* whose length is not the constant's number of entries, the main program  *)
(* file is never written and the initialise_constants hole gets no value   *)
(* (no initialisation line is produced); initialize_constants ends with    *)
(* the error of the first constant, in the iteration order of              *)
(* self.constants, whose value it cannot write: the ValueError whose       *)
(* message names the constant when that is a mismatched indexed constant,  *)
(* KeyError when it is a constant without a value, TypeError when it is an *)
(* indexed constant whose value is a number.                               *)
(***************************************************************************)
C27_FirstUnwritableConstantIsFatal ==
  (Constructing /\ WrongLength # {}) =>
     /\ ~gen.fs.main_file
     /\ "initialise_constants" \notin DOMAIN gen.code
     /\ gen.pc # "declare_ops_constants" /\ gen.pc # "write_main_file"
     /\ ret.op = "initialize_constants" =>
           /\ gen.exc = ret.exc
           /\ FirstUnwritable \in WrongLength =>
                 /\ ret.exc = "ValueError"
                 /\ ret.arg = MismatchMessage(FirstUnwritable)
           /\ FirstUnwritable \notin DOMAIN gen.simulation_parameters =>
                 /\ ret.exc = "KeyError"
                 /\ ret.arg = FirstUnwritable
           /\ (FirstUnwritable \in DOMAIN gen.simulation_parameters
                 /\ FirstUnwritable \notin WrongLength) =>
                 /\ ret.exc = "TypeError"
                 /\ ret.arg = "object of type 'Half' has no len()"

\* the scheme holds three values for the constant a of two entries and the
\* constant res, which comes later in the iteration, has no value:
\* initialize_constants has raised the ValueError that names a
C27_Witness ==
  /\ Constructing
  /\ ret.op = "initialize_constants" /\ ret.exc = "ValueError"
  /\ ret.arg = "The indexed constant a should have only 2 values"
  /\ Len(gen.simulation_parameters["a"].val) = 3
  /\ "res" \in gen.constants \ DOMAIN gen.simulation_parameters
  /\ "header" \in DOMAIN gen.code
  /\ ~gen.fs.main_file

(***************************************************************************)
(* C29.  Once the declarations of the main program are computed, every     *)
(* stencil and every grid field that is an argument of an emitted kernel   *)
(* call is declared: declare_stencils has one declaration for each entry   *)
(* of the stencil registry, define_dat and initialise_dat one for each     *)
(* tracked grid field, and every ops_arg_dat of every call names a         *)
(* registered stencil and a tracked field.  During a construction the      *)
(* tracked fields and the registry only grow, and a registered stencil     *)
(* keeps its name.                                                         *)
(***************************************************************************)
Lines(section) == Range(SectionOf(section))

DatArgs ==
  UNION {{EmittedCalls[i].args[n] : n \in {m \in DOMAIN EmittedCalls[i].args :
                                               EmittedCalls[i].args[m].kind = "ops_arg_dat"}} :
         i \in DOMAIN EmittedCalls}

StencilDeclaration(key, name) == "ops_stencil " \o name \o " = ops_decl_stencil(" \o key \o ");"

EveryArgumentDeclared ==
  (Constructing /\ "declare_stencils" \in DOMAIN gen.code) =>
     /\ Len(SectionOf("declare_stencils")) = 1 + Cardinality(DOMAIN stencil_dictionary)
     /\ \A key \in DOMAIN stencil_dictionary :
           StencilDeclaration(key, stencil_dictionary[key]) \in Lines("declare_stencils")
     /\ Len(SectionOf("define_dat")) = 1 + Cardinality(gen.grid_based_arrays)
     /\ Len(SectionOf("initialise_dat")) = 1 + Cardinality(gen.grid_based_arrays)
     /\ \A arr \in gen.grid_based_arrays :
           /\ "ops_dat " \o arr \o ";" \in Lines("define_dat")
           /\ \E i \in DOMAIN SectionOf("initialise_dat") :
                 SectionOf("initialise_dat")[i]
                    = arr \o " = ops_decl_dat(" \o block_name
                        \o ", 1, size, base, halo_m, halo_p, val, \"double\", \"" \o arr \o "\");"
     /\ \A a \in DatArgs :
           /\ a.field \in gen.grid_based_arrays
           /\ \E key \in DOMAIN stencil_dictionary : stencil_dictionary[key] = a.stencil

TrackedSetsGrow ==
  Constructing =>
     /\ gen.grid_based_arrays \subseteq gen'.grid_based_arrays
     /\ gen.pc # "check_consistency" =>
           \A key \in DOMAIN stencil_dictionary :
              /\ key \in DOMAIN stencil_dictionary'
              /\ stencil_dictionary'[key] = stencil_dictionary[key]

C29_CallArgumentsAreDeclared == []EveryArgumentDeclared /\ [][TrackedSetsGrow]_vars

\* the main program is written; its calls use three stencils and the fields
\* f, g and h, all declared
C29_Witness ==
  /\ gen.pc = "write_main_file"
  /\ {a.field : a \in DatArgs} = {"f", "g", "h"}
  /\ {a.stencil : a \in DatArgs} = {"stencil0", "stencil1", "stencil2"}
  /\ Len(SectionOf("declare_stencils")) = 4
  /\ "ops_dat h;" \in Lines("define_dat")

(***************************************************************************)
(* C30.  While nothing has been raised: every kernel call emitted names a  *)
(* kernel (never None) that has a definition in the kernel file of its     *)
(* block, because every computation of the lists the calls are made from   *)
(* was defined before; two different computations of a block that came     *)
(* without a name have different names; and a computation that stands in   *)
(* one of the five lists of its block only has one definition.             *)
(***************************************************************************)
\* the five lists of computations of block b
PhaseLists(b) ==
  <<gen.sim.spatial_discretisation[b].computations,
    gen.sim.initial_conditions[b].computations,
    gen.sim.temporal_discretisation[b].computations,
    gen.sim.temporal_discretisation[b].start_computations,
    gen.sim.temporal_discretisation[b].end_computations>>

PhaseComputations(b) == UNION {Range(PhaseLists(b)[p]) : p \in DOMAIN PhaseLists(b)}

ListedIn(b, id) ==
  {p \in DOMAIN PhaseLists(b) : \E i \in DOMAIN PhaseLists(b)[p] : PhaseLists(b)[p][i].id = id}

C30_CalledKernelsAreDefined ==
  (Constructing /\ gen.exc = "none" /\ gen.fs.kernel_files # EmptyMap) =>
     /\ \A i \in DOMAIN EmittedCalls :
           /\ EmittedCalls[i].name # "None"
           /\ \E b \in DOMAIN gen.fs.kernel_files :
                 \E n \in DOMAIN gen.fs.kernel_files[b] :
                    /\ gen.fs.kernel_files[b][n].name = EmittedCalls[i].name
                    /\ ListedIn(b, gen.fs.kernel_files[b][n].id) # {}
     /\ \A b \in DOMAIN gen.fs.kernel_files :
           /\ \A p \in DOMAIN PhaseLists(b) :
                 \A i \in DOMAIN PhaseLists(b)[p] :
                    /\ gen.names[PhaseLists(b)[p][i].id] # "None"
                    /\ DefinitionsOf(b, PhaseLists(b)[p][i].id) # {}
                    /\ \A n \in DefinitionsOf(b, PhaseLists(b)[p][i].id) :
                          gen.fs.kernel_files[b][n].name = gen.names[PhaseLists(b)[p][i].id]
           /\ \A c1, c2 \in PhaseComputations(b) :
                 (c1.id # c2.id /\ c1.name = "None" /\ c2.name = "None")
                    => gen.names[c1.id] # gen.names[c2.id]
           /\ \A c \in PhaseComputations(b) :
                 Cardinality(ListedIn(b, c.id)) = 1 => Cardinality(DefinitionsOf(b, c.id)) = 1

\* all calls are emitted for a block in which A is a spatial and a temporal
\* computation (two definitions), C a temporal one only (one definition) and
\* the start computation D came with its own name
C30_Witness ==
  /\ gen.pc = "initialisation" /\ gen.exc = "none"
  /\ Cardinality(DefinitionsOf(1, "A")) = 2
  /\ Cardinality(DefinitionsOf(1, "C")) = 1
  /\ ListedIn(1, "D") = {2, 4}
  /\ gen.names["A"] = "test_block0_0_kernel"
  /\ gen.names["D"] = "user_kernel"
  /\ \E i \in DOMAIN EmittedCalls : EmittedCalls[i].name = "user_kernel"
  /\ \E i \in DOMAIN EmittedCalls : EmittedCalls[i].name = "test_block0_0_kernel"

====
